---- MODULE Spec2Model ----
(***************************************************************************)
(* A model of verune: the ruleport serializer (ruleport/src/ser.rs), the   *)
(* libver runtime library (libver/src/lib.rs) and the verune command line   *)
(* (src/main.rs, verune/src/main.rs).                                       *)
(*                                                                          *)
(* Text is modelled as a sequence of one-character strings, so that         *)
(* String::ends_with, the delimiters and the indentation are what the code  *)
(* computes on bytes.                                                       *)
(***************************************************************************)
EXTENDS Integers, Sequences, FiniteSets, TLC

(***************************************************************************)
(* Bounds of the model.                                                     *)
(***************************************************************************)
MaxIndentWidth == 1
MaxStrLen == 2
MaxSeqLen == 2

(***************************************************************************)
(* Text helpers.                                                            *)
(***************************************************************************)
DigitChars == <<"0", "1", "2", "3", "4", "5", "6", "7", "8", "9">>

\* String::ends_with(char)
ends_with(text, c) == Len(text) > 0 /\ text[Len(text)] = c

\* n copies of the character c
RECURSIVE Repeat(_, _)
Repeat(c, n) == IF n <= 0 THEN <<>> ELSE <<c>> \o Repeat(c, n - 1)

\* itoa::Buffer::format for an unsigned value: decimal digits, no padding
RECURSIVE itoa_u64(_)
itoa_u64(v) == IF v < 10 THEN <<DigitChars[v + 1]>>
               ELSE itoa_u64(v \div 10) \o <<DigitChars[(v % 10) + 1]>>

\* the decimal digits of the magnitude of a negative value (computed on the
\* negative side, where the most negative value has no overflow)
RECURSIVE itoa_magnitude(_)
itoa_magnitude(v) ==
    LET d == (10 - (v % 10)) % 10
        rest == (v + d) \div 10
    IN  IF rest = 0 THEN <<DigitChars[d + 1]>>
        ELSE itoa_magnitude(rest) \o <<DigitChars[d + 1]>>

\* itoa::Buffer::format for a signed value: a minus sign, then the magnitude
itoa_i64(v) == IF v < 0 THEN <<"-">> \o itoa_magnitude(v) ELSE itoa_u64(v)

(***************************************************************************)
(* The serializer's types (ser.rs 5-48).                                    *)
(***************************************************************************)
SerializerMode == {"Normal", "Key", "Map"}
DelimiterType == {"Newline", "Whitespace", "Colon"}

\* impl Default for PrettyConfig
PrettyConfig_default == [delimiter |-> "Colon", indent_width |-> 0]

\* PrettyConfig::hierarchy
PrettyConfig_hierarchy == [delimiter |-> "Newline", indent_width |-> 4]

\* The Serializer to_string / to_string_pretty construct
NewSerializer(p) ==
    [output |-> <<>>, mode |-> "Normal", pretty |-> p, indent_tracking |-> 0]

(***************************************************************************)
(* impl ser::Serializer for &mut Serializer (ser.rs 87-263).  Each method   *)
(* maps the serializer to the serializer after the call; a method that      *)
(* hands the value back to the adapter (value.serialize(self)) is split at  *)
(* that call.                                                               *)
(***************************************************************************)
serialize_bool(self, v) ==
    [self EXCEPT !.output = @ \o (IF v THEN <<"t", "r", "u", "e">>
                                       ELSE <<"f", "a", "l", "s", "e">>)]

serialize_i64(self, v) == [self EXCEPT !.output = @ \o itoa_i64(v)]

\* serialize_i8 widening the bits of v without their sign
serialize_i8_zero_extended(self, v) == serialize_i64(self, v % 256)

serialize_i8(self, v) == serialize_i64(self, v)

serialize_i16(self, v) == serialize_i64(self, v)

serialize_i32(self, v) == serialize_i64(self, v)

serialize_u64(self, v) == [self EXCEPT !.output = @ \o itoa_u64(v)]

serialize_u8(self, v) == serialize_u64(self, v)

serialize_u16(self, v) == serialize_u64(self, v)

serialize_u32(self, v) == serialize_u64(self, v)

serialize_char(self, v) == [self EXCEPT !.output = @ \o <<"'">> \o v \o <<"'">>]

\* serialize_str writing the string bare in every mode
serialize_str_bare(self, v) == [self EXCEPT !.output = @ \o v]

serialize_str(self, v) ==
    IF self.mode = "Key"
    THEN [self EXCEPT !.output = @ \o v]
    ELSE [self EXCEPT !.output = @ \o <<"\"">> \o v \o <<"\"">>]

serialize_unit(self) == [self EXCEPT !.output = @ \o <<"/">>]

\* serialize_none writing nothing
serialize_none_silent(self) == self

serialize_none(self) == serialize_unit(self)

serialize_unit_struct(self) == serialize_unit(self)

serialize_unit_variant(self, variant) ==
    [self EXCEPT !.output = @ \o <<"$">> \o variant]

\* serialize_newtype_variant up to value.serialize (line 206)
serialize_newtype_variant(self, variant) ==
    [self EXCEPT !.output = @ \o <<"$">> \o variant \o <<"(">>]

\* serialize_newtype_variant without the ")" of line 208
serialize_newtype_variant_unclosed(self) == self

\* serialize_newtype_variant after value.serialize (line 208)
serialize_newtype_variant_close(self) == [self EXCEPT !.output = @ \o <<")">>]

serialize_seq(self) == [self EXCEPT !.output = @ \o <<"[">>]

serialize_tuple(self) == [self EXCEPT !.output = @ \o <<"(">>]

serialize_tuple_struct(self) == serialize_tuple(self)

\* serialize_tuple_variant without the "(" of line 238
serialize_tuple_variant_unopened(self, variant) ==
    [self EXCEPT !.output = @ \o <<"$">> \o variant]

serialize_tuple_variant(self, variant) ==
    [self EXCEPT !.output = @ \o <<"$">> \o variant \o <<"(">>]

serialize_map(self) ==
    [self EXCEPT !.output = @ \o <<"{">>,
                 !.mode = "Map",
                 !.indent_tracking = @ + 1]

serialize_struct(self) == serialize_map(self)

serialize_struct_variant(self, variant) ==
    [self EXCEPT !.output = @ \o <<"$">> \o variant \o <<"{">>]

(***************************************************************************)
(* delimiter!, serialize_iterable!, serialize_key!, create_indent, indents! *)
(* and the container traits (ser.rs 265-428).                               *)
(***************************************************************************)
\* delimiter! with the colon and whitespace arms swapped
delimiter_swapped(self) ==
    CASE self.pretty.delimiter = "Colon" -> " "
      [] self.pretty.delimiter = "Whitespace" -> ":"
      [] self.pretty.delimiter = "Newline" -> "\n"

delimiter(self) ==
    CASE self.pretty.delimiter = "Colon" -> ":"
      [] self.pretty.delimiter = "Whitespace" -> " "
      [] self.pretty.delimiter = "Newline" -> "\n"

\* serialize_iterable! without the substitution of lines 284-286
serialize_iterable_unsubstituted(self, start) ==
    IF ~ends_with(self.output, start)
    THEN [self EXCEPT !.output = @ \o <<delimiter(self)>>]
    ELSE self

\* serialize_iterable! without the ends_with test of line 282
serialize_iterable_always(self, start) ==
    LET char_data == IF (start = "(" \/ start = "[") /\ delimiter(self) = "\n"
                     THEN " " ELSE delimiter(self)
    IN  [self EXCEPT !.output = @ \o <<char_data>>]

\* serialize_element / serialize_field of serialize_iterable!, up to
\* value.serialize
serialize_iterable(self, start) ==
    IF ~ends_with(self.output, start)
    THEN LET char_data == IF (start = "(" \/ start = "[") /\ delimiter(self) = "\n"
                          THEN " " ELSE delimiter(self)
         IN  [self EXCEPT !.output = @ \o <<char_data>>]
    ELSE self

\* end of serialize_iterable! with a delimiter before the bracket
serialize_iterable_end_delimited(self, end) ==
    [self EXCEPT !.output = @ \o <<delimiter(self), end>>]

\* end of serialize_iterable!
serialize_iterable_end(self, end) == [self EXCEPT !.output = @ \o <<end>>]

create_indent(self) ==
    Repeat(" ", self.pretty.indent_width * self.indent_tracking)

indents(self) ==
    IF self.pretty.delimiter = "Newline"
    THEN [self EXCEPT !.output = @ \o create_indent(self)]
    ELSE self

\* serialize_key!: the key is a &'static str, written by serialize_str
serialize_key(self, key) ==
    [serialize_str([self EXCEPT !.mode = "Key"], key) EXCEPT !.mode = "Normal"]

\* SerializeMap::serialize_key, up to key.serialize
SerializeMap_serialize_key(self) ==
    LET s1 == IF ~ends_with(self.output, "{") \/ self.pretty.delimiter = "Newline"
              THEN [self EXCEPT !.output = @ \o <<delimiter(self)>>]
              ELSE self
    IN  indents([s1 EXCEPT !.mode = "Key"])

\* SerializeMap::serialize_value without the reset of the mode
SerializeMap_serialize_value_keyed(self) ==
    [self EXCEPT !.output = @ \o <<"-", ">">>]

\* SerializeMap::serialize_value, up to value.serialize
SerializeMap_serialize_value(self) ==
    [self EXCEPT !.mode = "Normal", !.output = @ \o <<"-", ">">>]

\* SerializeMap::end without the test of the mode
SerializeMap_end_any_mode(self) ==
    LET closed == [self EXCEPT !.indent_tracking = @ - 1]
        ending == IF closed.pretty.delimiter # "Newline" THEN <<"}">>
                  ELSE <<"\n">> \o create_indent(closed) \o <<"}">>
    IN  [closed EXCEPT !.output = @ \o ending, !.mode = "Normal"]

SerializeMap_end(self) ==
    LET s1 == [self EXCEPT !.indent_tracking = @ - 1]
        ending == IF s1.mode = "Map" \/ s1.pretty.delimiter # "Newline"
                  THEN <<"}">>
                  ELSE <<"\n">> \o create_indent(s1) \o <<"}">>
    IN  [s1 EXCEPT !.output = @ \o ending, !.mode = "Normal"]

\* SerializeStruct::serialize_field, up to value.serialize
SerializeStruct_serialize_field(self, key) ==
    LET s1 == IF ~ends_with(self.output, "{") \/ self.pretty.delimiter = "Newline"
              THEN [self EXCEPT !.output = @ \o <<delimiter(self)>>]
              ELSE self
        s2 == serialize_key(indents(s1), key)
    IN  [s2 EXCEPT !.output = @ \o <<"-", ">">>]

\* SerializeStruct::end with the depth left as it was
SerializeStruct_end_deep(self) ==
    LET ending == IF self.mode = "Map" \/ self.pretty.delimiter # "Newline"
                  THEN <<"}">>
                  ELSE <<"\n">> \o create_indent(self) \o <<"}">>
    IN  [self EXCEPT !.output = @ \o ending, !.mode = "Normal"]

SerializeStruct_end(self) ==
    LET s1 == [self EXCEPT !.indent_tracking = @ - 1]
        ending == IF s1.mode = "Map" \/ s1.pretty.delimiter # "Newline"
                  THEN <<"}">>
                  ELSE <<"\n">> \o create_indent(s1) \o <<"}">>
    IN  [s1 EXCEPT !.output = @ \o ending, !.mode = "Normal"]

\* SerializeStructVariant::serialize_field, up to value.serialize
SerializeStructVariant_serialize_field(self, key) ==
    LET s1 == IF ~ends_with(self.output, "{")
              THEN [self EXCEPT !.output = @ \o <<delimiter(self)>>]
              ELSE self
        s2 == serialize_key(s1, key)
    IN  [s2 EXCEPT !.output = @ \o <<"-", ">">>]

SerializeStructVariant_end(self) == [self EXCEPT !.output = @ \o <<"}">>]

(***************************************************************************)
(* The value vocabulary of the adapter (serde's data model).  A value is a  *)
(* record of one shape: k the kind, n a number, s a text (string content,   *)
(* character, variant or field name), items the children.                   *)
(***************************************************************************)
Val(k, n, s, items) == [k |-> k, n |-> n, s |-> s, items |-> items]

VBool(b) == Val("bool", IF b THEN 1 ELSE 0, <<>>, <<>>)
VInt(k, n) == Val(k, n, <<>>, <<>>)
VU8(n) == VInt("u8", n)
VChar(c) == Val("char", 0, <<c>>, <<>>)
VStr(s) == Val("str", 0, s, <<>>)
VBytes(items) == Val("bytes", 0, <<>>, items)
VUnit == Val("unit", 0, <<>>, <<>>)
VNone == Val("none", 0, <<>>, <<>>)
VSome(v) == Val("some", 0, <<>>, <<v>>)
VUnitStruct == Val("unit_struct", 0, <<>>, <<>>)
VNewtypeStruct(v) == Val("newtype_struct", 0, <<>>, <<v>>)
VSeq(items) == Val("seq", 0, <<>>, items)
VTuple(items) == Val("tuple", 0, <<>>, items)
VTupleStruct(items) == Val("tuple_struct", 0, <<>>, items)
VEntry(key, v) == Val("entry", 0, <<>>, <<key, v>>)
VField(name, v) == VEntry(VStr(name), v)
VMap(entries) == Val("map", 0, <<>>, entries)
VStruct(fields) == Val("struct", 0, <<>>, fields)
VUnitVariant(tag) == Val("unit_variant", 0, tag, <<>>)
VNewtypeVariant(tag, v) == Val("newtype_variant", 0, tag, <<v>>)
VTupleVariant(tag, items) == Val("tuple_variant", 0, tag, items)
VStructVariant(tag, fields) == Val("struct_variant", 0, tag, fields)

IntKinds == {"i8", "i16", "i32", "i64", "u8", "u16", "u32", "u64"}

(***************************************************************************)
(* The adapter's position: the calls it still has to make, first first.     *)
(* A task is one call on the serializer: op names the method, v its         *)
(* argument.                                                                *)
(***************************************************************************)
Task(op, v) == [op |-> op, v |-> v]

\* one call of op per child, in order
RECURSIVE Calls(_, _)
Calls(op, items) ==
    IF items = <<>> THEN <<>>
    ELSE <<Task(op, Head(items))>> \o Calls(op, Tail(items))

\* SerializeMap::serialize_entry: serialize_key, then serialize_value
RECURSIVE EntryCalls(_)
EntryCalls(entries) ==
    IF entries = <<>> THEN <<>>
    ELSE <<Task("map_key", Head(entries).items[1]),
           Task("map_value", Head(entries).items[2])>> \o EntryCalls(Tail(entries))

Step(self, tasks) == [self |-> self, tasks |-> tasks]

\* serialize_bytes: a sequence of the bytes, each written by serialize_u8
RECURSIVE serialize_bytes_elements(_, _)
serialize_bytes_elements(self, bytes) ==
    IF bytes = <<>> THEN self
    ELSE serialize_bytes_elements(
             serialize_u8(serialize_iterable(self, "["), Head(bytes).n),
             Tail(bytes))

serialize_bytes(self, v) ==
    serialize_iterable_end(serialize_bytes_elements(serialize_seq(self), v), "]")

\* value.serialize(serializer): the serializer method the adapter calls for
\* a value of each kind, and the calls that follow it
Serialize(self, v, rest) ==
    CASE v.k = "bool" -> Step(serialize_bool(self, v.n = 1), rest)
      [] v.k = "i8" -> Step(serialize_i8(self, v.n), rest)
      [] v.k = "i16" -> Step(serialize_i16(self, v.n), rest)
      [] v.k = "i32" -> Step(serialize_i32(self, v.n), rest)
      [] v.k = "i64" -> Step(serialize_i64(self, v.n), rest)
      [] v.k = "u8" -> Step(serialize_u8(self, v.n), rest)
      [] v.k = "u16" -> Step(serialize_u16(self, v.n), rest)
      [] v.k = "u32" -> Step(serialize_u32(self, v.n), rest)
      [] v.k = "u64" -> Step(serialize_u64(self, v.n), rest)
      [] v.k = "char" -> Step(serialize_char(self, v.s), rest)
      [] v.k = "str" -> Step(serialize_str(self, v.s), rest)
      [] v.k = "bytes" -> Step(serialize_bytes(self, v.items), rest)
      [] v.k = "none" -> Step(serialize_none(self), rest)
      [] v.k = "some" -> Step(self, <<Task("value", v.items[1])>> \o rest)
      [] v.k = "unit" -> Step(serialize_unit(self), rest)
      [] v.k = "unit_struct" -> Step(serialize_unit_struct(self), rest)
      [] v.k = "unit_variant" -> Step(serialize_unit_variant(self, v.s), rest)
      [] v.k = "newtype_struct" -> Step(self, <<Task("value", v.items[1])>> \o rest)
      [] v.k = "newtype_variant" ->
            Step(serialize_newtype_variant(self, v.s),
                 <<Task("value", v.items[1]), Task("newtype_variant_close", VUnit)>>
                     \o rest)
      [] v.k = "seq" ->
            Step(serialize_seq(self),
                 Calls("seq_element", v.items) \o <<Task("seq_end", VUnit)>> \o rest)
      [] v.k = "tuple" ->
            Step(serialize_tuple(self),
                 Calls("tuple_element", v.items) \o <<Task("tuple_end", VUnit)>>
                     \o rest)
      [] v.k = "tuple_struct" ->
            Step(serialize_tuple_struct(self),
                 Calls("tuple_struct_field", v.items)
                     \o <<Task("tuple_struct_end", VUnit)>> \o rest)
      [] v.k = "tuple_variant" ->
            Step(serialize_tuple_variant(self, v.s),
                 Calls("tuple_variant_field", v.items)
                     \o <<Task("tuple_variant_end", VUnit)>> \o rest)
      [] v.k = "map" ->
            Step(serialize_map(self),
                 EntryCalls(v.items) \o <<Task("map_end", VUnit)>> \o rest)
      [] v.k = "struct" ->
            Step(serialize_struct(self),
                 Calls("struct_field", v.items) \o <<Task("struct_end", VUnit)>>
                     \o rest)
      [] v.k = "struct_variant" ->
            Step(serialize_struct_variant(self, v.s),
                 Calls("struct_variant_field", v.items)
                     \o <<Task("struct_variant_end", VUnit)>> \o rest)

\* one call of the adapter on the serializer
Call(self, tasks) ==
    LET t == Head(tasks)
        rest == Tail(tasks)
        value(x) == <<Task("value", x)>> \o rest
    IN  CASE t.op = "value" -> Serialize(self, t.v, rest)
          [] t.op = "newtype_variant_close" ->
                Step(serialize_newtype_variant_close(self), rest)
          [] t.op = "seq_element" -> Step(serialize_iterable(self, "["), value(t.v))
          [] t.op = "seq_end" -> Step(serialize_iterable_end(self, "]"), rest)
          [] t.op \in {"tuple_element", "tuple_struct_field", "tuple_variant_field"} ->
                Step(serialize_iterable(self, "("), value(t.v))
          [] t.op \in {"tuple_end", "tuple_struct_end", "tuple_variant_end"} ->
                Step(serialize_iterable_end(self, ")"), rest)
          [] t.op = "map_key" -> Step(SerializeMap_serialize_key(self), value(t.v))
          [] t.op = "map_value" -> Step(SerializeMap_serialize_value(self), value(t.v))
          [] t.op = "map_end" -> Step(SerializeMap_end(self), rest)
          [] t.op = "struct_field" ->
                Step(SerializeStruct_serialize_field(self, t.v.items[1].s),
                     value(t.v.items[2]))
          [] t.op = "struct_end" -> Step(SerializeStruct_end(self), rest)
          [] t.op = "struct_variant_field" ->
                Step(SerializeStructVariant_serialize_field(self, t.v.items[1].s),
                     value(t.v.items[2]))
          [] t.op = "struct_variant_end" -> Step(SerializeStructVariant_end(self), rest)

\* value.serialize(&mut serializer) run to its end: the serializer after
\* every call of the adapter
RECURSIVE Drive(_, _)
Drive(self, tasks) ==
    IF tasks = <<>> THEN self
    ELSE LET r == Call(self, tasks) IN Drive(r.self, r.tasks)

\* to_string_pretty as a function: the text returned for v under pretty
to_string_pretty(v, p) == Drive(NewSerializer(p), <<Task("value", v)>>).output

\* to_string as a function
to_string(v) == to_string_pretty(v, PrettyConfig_default)

\* ser::Error::custom
Error_custom(msg) == [variant |-> "Message", msg |-> msg]

\* de::Error::custom
de_Error_custom(msg) == [variant |-> "Message", msg |-> msg]

\* Error::UnrecognizedSyntax, SequenceKeptOpen, InvalidKey and InvalidValue;
\* data is the Iterable of SequenceKeptOpen
Positioned(variant, data, line, column) ==
    [variant |-> variant, data |-> data, line |-> line, column |-> column]

\* Display for Iterable
Iterable_fmt(data) == IF data = "Tuple" THEN "tuple" ELSE "array"

\* Display for Error that leaves the location out
Error_fmt_unlocated(e) ==
    IF e.variant = "Message" THEN e.msg
    ELSE IF e.variant = "UnrecognizedSyntax" THEN <<"syntax could not be properly parsed">>
    ELSE IF e.variant = "SequenceKeptOpen"
    THEN <<"the ", Iterable_fmt(e.data), " was kept open">>
    ELSE IF e.variant = "InvalidKey" THEN <<"key is invalid">>
    ELSE <<"value was invalid">>

\* Display for Error: the text written to the formatter, the fixed parts of
\* a format string as one piece each
Error_fmt(e) ==
    LET location == itoa_u64(e.line) \o <<":">> \o itoa_u64(e.column)
    IN  IF e.variant = "Message" THEN e.msg
        ELSE IF e.variant = "UnrecognizedSyntax"
        THEN <<"syntax could not be properly parsed (">> \o location \o <<")">>
        ELSE IF e.variant = "SequenceKeptOpen"
        THEN <<"the ", Iterable_fmt(e.data), " at location (">> \o location
                \o <<") was kept open">>
        ELSE IF e.variant = "InvalidKey"
        THEN <<"key at location (">> \o location \o <<") is invalid">>
        ELSE <<"value at location (">> \o location \o <<") was invalid">>

\* the messages custom is called with, and the locations and the variants
\* of the other errors
Messages == {<<>>, <<"a">>, <<"(", "1", ":", "2", ")">>, <<"\"", "a", "\"">>}
Locations == {0, 1, 12, 2147483647}
PositionedVariants == {"UnrecognizedSyntax", "SequenceKeptOpen", "InvalidKey", "InvalidValue"}
Iterables == {"Tuple", "Array"}

\* the errors the adapter raises
AdapterErrors == {Error_custom("adapter")}

\* the ? of to_string / to_string_pretty with the output kept
short_circuit_partial(self, e) == [result |-> self.output, error |-> <<e>>]

\* the ? of to_string / to_string_pretty: the error is returned, the
\* serializer's output is not
short_circuit(self, e) == [result |-> <<>>, error |-> <<e>>]

(***************************************************************************)
(* Target types.  A type is a record of one shape, like a value: k the      *)
(* kind, s a name (field or variant), items the component types.            *)
(***************************************************************************)
Ty(k, s, items) == [k |-> k, s |-> s, items |-> items]

TBool == Ty("bool", <<>>, <<>>)
TInt(k) == Ty(k, <<>>, <<>>)
TU8 == TInt("u8")
TChar == Ty("char", <<>>, <<>>)
TStr == Ty("str", <<>>, <<>>)
TBytes == Ty("bytes", <<>>, <<>>)
TUnit == Ty("unit", <<>>, <<>>)
TOption(t) == Ty("option", <<>>, <<t>>)
TUnitStruct == Ty("unit_struct", <<>>, <<>>)
TNewtypeStruct(t) == Ty("newtype_struct", <<>>, <<t>>)
TSeq(t) == Ty("seq", <<>>, <<t>>)
TTuple(ts) == Ty("tuple", <<>>, ts)
TTupleStruct(ts) == Ty("tuple_struct", <<>>, ts)
TMap(kt, vt) == Ty("map", <<>>, <<kt, vt>>)
TField(name, t) == Ty("field", name, <<t>>)
TStruct(fields) == Ty("struct", <<>>, fields)
TUnitVariant(tag) == Ty("unit_variant", tag, <<>>)
TNewtypeVariant(tag, t) == Ty("newtype_variant", tag, <<t>>)
TTupleVariant(tag, ts) == Ty("tuple_variant", tag, ts)
TStructVariant(tag, fields) == Ty("struct_variant", tag, fields)
TEnum(variants) == Ty("enum", <<>>, variants)

\* the values of each integer width the model draws from: both ends and
\* values around zero (TLC's integers are 32 bits wide, so the
\* 32- and 64-bit unsigned widths and the 64-bit signed width are drawn
\* within that range)
IntSamples(k) ==
    CASE k = "i8" -> {-128, -1, 0, 127}
      [] k = "i16" -> {-32768, 0, 32767}
      [] k = "i32" -> {-2147483647 - 1, 0, 2147483647}
      [] k = "i64" -> {-2147483647 - 1, -10, 0, 2147483647}
      [] k = "u8" -> {0, 1, 12}
      [] k = "u16" -> {0, 65535}
      [] k = "u32" -> {0, 2147483647}
      [] k = "u64" -> {0, 10, 2147483647}

\* the characters strings and chars are drawn from
StrAlphabet == {"a", "\""}
CharAlphabet == {"a", "'", "\""}

SeqsUpTo(S, n) == UNION {[1..m -> S] : m \in 0..n}

\* sequences of entries with pairwise different keys (a HashMap iterates
\* its entries in any order)
DistinctKeys(entries) ==
    \A i, j \in 1..Len(entries) :
        i # j => entries[i].items[1] # entries[j].items[1]

RECURSIVE ValuesOf(_)
RECURSIVE ProductOf(_)
\* one value of each component type, in order
ProductOf(ts) ==
    IF ts = <<>> THEN {<<>>}
    ELSE {<<h>> \o t : h \in ValuesOf(Head(ts)), t \in ProductOf(Tail(ts))}

\* the values of a type, within the bounds
ValuesOf(ty) ==
    CASE ty.k = "bool" -> {VBool(TRUE), VBool(FALSE)}
      [] ty.k \in IntKinds -> {VInt(ty.k, n) : n \in IntSamples(ty.k)}
      [] ty.k = "char" -> {VChar(c) : c \in CharAlphabet}
      [] ty.k = "str" -> {VStr(s) : s \in SeqsUpTo(StrAlphabet, MaxStrLen)}
      [] ty.k = "bytes" -> {VBytes(b) : b \in SeqsUpTo(ValuesOf(TU8), MaxSeqLen)}
      [] ty.k = "unit" -> {VUnit}
      [] ty.k = "option" -> {VNone} \cup {VSome(v) : v \in ValuesOf(ty.items[1])}
      [] ty.k = "unit_struct" -> {VUnitStruct}
      [] ty.k = "newtype_struct" -> {VNewtypeStruct(v) : v \in ValuesOf(ty.items[1])}
      [] ty.k = "seq" -> {VSeq(x) : x \in SeqsUpTo(ValuesOf(ty.items[1]), MaxSeqLen)}
      [] ty.k = "tuple" -> {VTuple(x) : x \in ProductOf(ty.items)}
      [] ty.k = "tuple_struct" -> {VTupleStruct(x) : x \in ProductOf(ty.items)}
      [] ty.k = "map" ->
            {VMap(x) : x \in {e \in SeqsUpTo({VEntry(a, b) : a \in ValuesOf(ty.items[1]),
                                                             b \in ValuesOf(ty.items[2])},
                                              MaxSeqLen) : DistinctKeys(e)}}
      [] ty.k = "field" -> {VField(ty.s, v) : v \in ValuesOf(ty.items[1])}
      [] ty.k = "struct" -> {VStruct(x) : x \in ProductOf(ty.items)}
      [] ty.k = "unit_variant" -> {VUnitVariant(ty.s)}
      [] ty.k = "newtype_variant" ->
            {VNewtypeVariant(ty.s, v) : v \in ValuesOf(ty.items[1])}
      [] ty.k = "tuple_variant" -> {VTupleVariant(ty.s, x) : x \in ProductOf(ty.items)}
      [] ty.k = "struct_variant" -> {VStructVariant(ty.s, x) : x \in ProductOf(ty.items)}
      [] ty.k = "enum" ->
            UNION {ValuesOf(ty.items[i]) : i \in 1..Len(ty.items)}

(***************************************************************************)
(* The types and values of the serializer's tests (ser.rs 437-535).  A      *)
(* fixed-size array [u8; 3] is a tuple to the adapter.                      *)
(***************************************************************************)
N_name == <<"n", "a", "m", "e">>
N_version == <<"v", "e", "r", "s", "i", "o", "n">>
N_api_compat == <<"a", "p", "i", "_", "c", "o", "m", "p", "a", "t">>
N_distribution == <<"d", "i", "s", "t", "r", "i", "b", "u", "t", "i", "o", "n">>
N_compat == <<"c", "o", "m", "p", "a", "t">>
N_Stable == <<"S", "t", "a", "b", "l", "e">>
N_Alpha == <<"A", "l", "p", "h", "a">>
N_Nightly == <<"N", "i", "g", "h", "t", "l", "y">>
N_ReleaseCandidate ==
    <<"R", "e", "l", "e", "a", "s", "e", "C", "a", "n", "d", "i", "d", "a", "t", "e">>
N_changelog == <<"c", "h", "a", "n", "g", "e", "l", "o", "g">>
S_my_plugin == <<"m", "y", "-", "p", "l", "u", "g", "i", "n">>
S_test == <<"t", "e", "s", "t">>
S_one == <<"o", "n", "e">>
S_value_one == <<"v", "a", "l", "u", "e", "_", "o", "n", "e">>
S_changelog_text ==
    <<"A", "d", "d", "e", "d", " ", "\"", "s", "w", "i", "t", "c", "h", "\"", " ",
      "s", "u", "b", "c", "o", "m", "m", "a", "n", "d">>

TU8x3 == TTuple(<<TU8, TU8, TU8>>)

\* enum DistributionMode
TDistributionMode ==
    TEnum(<<TUnitVariant(N_Stable),
            TUnitVariant(N_Alpha),
            TTupleVariant(N_Nightly, <<TU8, TU8, TU8>>),
            TStructVariant(N_ReleaseCandidate, <<TField(N_changelog, TStr)>>)>>)

\* struct Plugin
TPlugin ==
    TStruct(<<TField(N_name, TStr),
              TField(N_version, TU8x3),
              TField(N_api_compat, TU8x3),
              TField(N_distribution, TDistributionMode),
              TField(N_compat, TMap(TStr, TU8x3))>>)

VU8x3(a, b, c) == VTuple(<<VU8(a), VU8(b), VU8(c)>>)

VPlugin(name, version, api_compat, distribution, compat) ==
    VStruct(<<VField(N_name, VStr(name)),
              VField(N_version, version),
              VField(N_api_compat, api_compat),
              VField(N_distribution, distribution),
              VField(N_compat, compat)>>)

\* test::serialize_simple_struct
V_simple_struct ==
    VPlugin(S_my_plugin, VU8x3(1, 0, 0), VU8x3(1, 0, 1), VUnitVariant(N_Stable), VMap(<<>>))

\* test::serialize_hashmap
V_hashmap == VMap(<<VEntry(VStr(S_one), VStr(S_value_one))>>)

\* test::custom_pretty
V_custom_pretty ==
    VPlugin(S_my_plugin, VU8x3(2, 2, 1), VU8x3(2, 0, 0), VUnitVariant(N_Alpha), VMap(<<>>))

V_Nightly == VTupleVariant(N_Nightly, <<VU8(12), VU8(13), VU8(25)>>)

\* test::tuple_variant
V_tuple_variant ==
    VPlugin(S_my_plugin, VU8x3(1, 0, 0), VU8x3(2, 0, 0), V_Nightly, VMap(<<>>))

\* test::whitespace_delimiter
V_whitespace_delimiter == VTuple(<<VU8(1), VBool(TRUE), VStr(S_test)>>)

\* test::struct_variant
V_struct_variant ==
    VStructVariant(N_ReleaseCandidate, <<VField(N_changelog, VStr(S_changelog_text))>>)

\* the Plugin of test::serialize_simple_struct with Vec<u8> in place of
\* [u8; 3]: its version fields are sequences to the adapter
TPluginVec ==
    TStruct(<<TField(N_name, TStr),
              TField(N_version, TSeq(TU8)),
              TField(N_api_compat, TSeq(TU8)),
              TField(N_distribution, TDistributionMode),
              TField(N_compat, TMap(TStr, TSeq(TU8)))>>)

V_simple_struct_vec ==
    VPlugin(S_my_plugin, VSeq(<<VU8(1), VU8(0), VU8(0)>>),
            VSeq(<<VU8(1), VU8(0), VU8(1)>>), VUnitVariant(N_Stable), VMap(<<>>))

Typed(t, v) == [ty |-> t, v |-> v]

\* the values of the tests, each with its target type
TestValues ==
    {Typed(TPlugin, V_simple_struct),
     Typed(TMap(TStr, TStr), V_hashmap),
     Typed(TPlugin, V_custom_pretty),
     Typed(TDistributionMode, V_Nightly),
     Typed(TPlugin, V_tuple_variant),
     Typed(TTuple(<<TU8, TBool, TStr>>), V_whitespace_delimiter),
     Typed(TOption(TUnit), VNone),
     Typed(TDistributionMode, V_struct_variant),
     Typed(TPluginVec, V_simple_struct_vec)}

(***************************************************************************)
(* The target types the model draws values from: every scalar, and every    *)
(* container shape alone and nested in the others.                          *)
(***************************************************************************)
N_a == <<"a">>
N_b == <<"b">>

TInner == TStruct(<<TField(N_a, TBool)>>)

TShapes ==
    TEnum(<<TNewtypeVariant(<<"W">>, TOption(TBool)),
            TStructVariant(<<"E">>, <<>>),
            TStructVariant(<<"P">>, <<TField(N_a, TBool),
                                      TField(N_b, TMap(TBool, TUnit))>>)>>)

ModelTypes ==
    {TBool, TChar, TStr, TBytes, TUnit, TUnitStruct}
        \cup {TInt(k) : k \in IntKinds}
        \cup {TOption(TUnit), TOption(TU8), TOption(TOption(TBool)),
              TNewtypeStruct(TStr),
              TSeq(TU8), TSeq(TSeq(TUnit)), TSeq(TChar),
              TTuple(<<TU8, TBool, TStr>>), TTupleStruct(<<TBool, TChar>>),
              TTupleStruct(<<>>),
              TMap(TBool, TMap(TBool, TUnit)),
              TStruct(<<>>), TStruct(<<TField(N_a, TU8), TField(N_b, TInner)>>),
              TStruct(<<TField(N_a, TShapes)>>),
              TDistributionMode, TShapes}

\* the keys of the maps with string keys: empty, an identifier of one and
\* of two bytes, a double quote
KeySamples == {<<>>, <<"a">>, <<"a", "a">>, <<"\"">>}

\* the maps with string keys
StringKeyed ==
    {VMap(e) : e \in {x \in SeqsUpTo({VEntry(VStr(k), VUnit) : k \in KeySamples},
                                      MaxSeqLen) : DistinctKeys(x)}}

\* every value the model serializes, with its target type
Catalogue ==
    TestValues
        \cup UNION {{Typed(t, v) : v \in ValuesOf(t)} : t \in ModelTypes}
        \cup {Typed(TMap(TStr, TUnit), v) : v \in StringKeyed}

\* the indent widths the model draws from
IndentWidths == (0..MaxIndentWidth) \cup {PrettyConfig_hierarchy.indent_width}

PrettyConfigs == [delimiter : DelimiterType, indent_width : IndentWidths]

(***************************************************************************)
(* libver (libver/src/lib.rs) and the command line (src/main.rs,            *)
(* verune/src/main.rs).  A configuration is a function from runtime names    *)
(* to versions (HashMap<String, String>).                                   *)
(***************************************************************************)
Runtimes == {"node", "python"}
Versions == {"1", "2"}

EmptyMap == [r \in {} |-> "1"]

\* HashMap::insert
Insert(m, k, v) == [r \in DOMAIN m \cup {k} |-> IF r = k THEN v ELSE m[r]]

\* a file: absent, present and not a configuration, or a configuration
FAbsent == [kind |-> "absent", map |-> EmptyMap]
FInvalid == [kind |-> "invalid", map |-> EmptyMap]
FMap(m) == [kind |-> "map", map |-> m]

\* Option<HashMap<String, String>>
None == [some |-> FALSE, map |-> EmptyMap]
Some(m) == [some |-> TRUE, map |-> m]

\* io::Error, by its Display text
NoError == ""
E_NotFound == "No such file or directory (os error 2)"
E_InvalidConfig == "Configuration file is invalid"
E_InvalidMetadata == "Metadata file for runtime is not valid runtime metadata"
E_VersionNotFound == "Version for runtime was not found"
E_SearchPathNotFound == "Search path does not exist"
E_WriteFailed == "Permission denied (os error 13)"
E_SpawnFailed == "No such file or directory (os error 2)"

Ok(m) == [ok |-> TRUE, map |-> m, err |-> NoError]
Err(e) == [ok |-> FALSE, map |-> EmptyMap, err |-> e]

\* conf::parse
conf_parse(f) ==
    CASE f.kind = "absent" -> Err(E_NotFound)
      [] f.kind = "invalid" -> Err(E_InvalidConfig)
      [] f.kind = "map" -> Ok(f.map)

\* Result::ok
ok(r) == IF r.ok THEN Some(r.map) ELSE None

\* What the file system holds for one runtime/version pair: meta, whether
\* the runtime's meta.ron loads; dir, whether the version directory exists;
\* paths, whether every search path exists under it.
PairStates ==
    {[meta |-> FALSE, dir |-> FALSE, paths |-> FALSE],
     [meta |-> FALSE, dir |-> TRUE, paths |-> FALSE],
     [meta |-> TRUE, dir |-> FALSE, paths |-> FALSE],
     [meta |-> TRUE, dir |-> TRUE, paths |-> FALSE],
     [meta |-> TRUE, dir |-> TRUE, paths |-> TRUE]}

\* Runtime::new: the error, or NoError
Runtime_new(st) == IF st.meta THEN NoError ELSE E_InvalidMetadata

\* get_safe_version without the try_exists test
get_safe_version_unchecked(st) == NoError

\* Runtime::get_safe_version: the error, or NoError
get_safe_version(st) == IF st.dir THEN NoError ELSE E_VersionNotFound

\* get_version_search_paths without the loop over the search paths
get_version_search_paths_untested(st) == get_safe_version(st)

\* Runtime::get_version_search_paths: the error, or NoError
get_version_search_paths(st) ==
    IF get_safe_version(st) # NoError THEN get_safe_version(st)
    ELSE IF st.paths THEN NoError ELSE E_SearchPathNotFound

\* the orders a HashMap of these keys can iterate in
Orders(keys) ==
    {o \in [1..Cardinality(keys) -> keys] :
        \A i, j \in 1..Cardinality(keys) : i # j => o[i] # o[j]}

\* the first error of the results, one per runtime in iteration order, or
\* NoError
RECURSIVE FirstError(_)
FirstError(results) ==
    IF results = <<>> THEN NoError
    ELSE IF Head(results) # NoError THEN Head(results)
    ELSE FirstError(Tail(results))

\* conf::collect: the error of the first Runtime::new that fails, or NoError
conf_collect(fs, order) ==
    FirstError([i \in DOMAIN order |-> Runtime_new(fs[order[i]])])

\* config_merge! with the entries already in the configuration kept
RECURSIVE config_merge_keeping(_, _)
config_merge_keeping(m, files) ==
    IF files = <<>> THEN m
    ELSE LET parsed == conf_parse(Head(files))
             merged == IF parsed.ok
                       THEN [r \in DOMAIN m \cup DOMAIN parsed.map |->
                                IF r \in DOMAIN m THEN m[r] ELSE parsed.map[r]]
                       ELSE m
         IN  config_merge_keeping(merged, Tail(files))

\* config_merge!: every file of the list that parses is inserted entry by
\* entry; one that does not parse is skipped
RECURSIVE config_merge(_, _)
config_merge(m, files) ==
    IF files = <<>> THEN m
    ELSE LET parsed == conf_parse(Head(files))
             merged == IF parsed.ok
                       THEN [r \in DOMAIN m \cup DOMAIN parsed.map |->
                                IF r \in DOMAIN parsed.map THEN parsed.map[r] ELSE m[r]]
                       ELSE m
         IN  config_merge(merged, Tail(files))

\* the --replace pairs, inserted in command-line order
RECURSIVE replace_all(_, _)
replace_all(m, pairs) ==
    IF pairs = <<>> THEN m
    ELSE replace_all(Insert(m, Head(pairs)[1], Head(pairs)[2]), Tail(pairs))

\* error_status: (i32, String, bool); the message with the error it formats
Status(code, msg, err, good) ==
    [code |-> code, msg |-> msg, err |-> err, good |-> good]

\* runtime_check!: the text runtime_errors holds after the runtimes are
\* checked in iteration order, as pieces ("\n", or one message), and
\* whether a Runtime::new failed (break 'errorable)
RECURSIVE runtime_check(_, _, _, _)
runtime_check(fs, order, i, errors) ==
    IF i > Len(order) THEN [broke |-> FALSE, at |-> "", errors |-> errors]
    ELSE LET rt == order[i]
         IN  IF Runtime_new(fs[rt]) # NoError
             THEN [broke |-> TRUE, at |-> rt, errors |-> errors]
             ELSE IF get_safe_version(fs[rt]) # NoError
             THEN runtime_check(fs, order, i + 1,
                      errors \o (IF i > 1 THEN <<"\n">> ELSE <<>>)
                             \o <<rt>>)
             ELSE runtime_check(fs, order, i + 1, errors)

\* runtime_errors.retain: a newline is dropped when the first newline of
\* the text is at index 0, that is when the text starts with a newline
retain(errors) ==
    IF errors # <<>> /\ Head(errors) = "\n"
    THEN SelectSeq(errors, LAMBDA c : c # "\n")
    ELSE errors

\* the command lines and environments the model draws from
O_node2 == FMap([r \in {"node"} |-> "2"])
O_both == FMap([r \in {"node", "python"} |-> IF r = "node" THEN "1" ELSE "2"])

BaseFiles ==
    {FAbsent, FInvalid, FMap(EmptyMap),
     FMap([r \in {"node"} |-> "1"]),
     FMap([r \in {"node", "python"} |-> "1"])}

\* VERUNE_OVERLAYS: unset, or the files its paths name
EnvOverlays ==
    {[set |-> FALSE, files |-> <<>>],
     [set |-> TRUE, files |-> <<FInvalid>>],
     [set |-> TRUE, files |-> <<O_node2>>],
     [set |-> TRUE, files |-> <<O_both, O_node2>>]}

\* --overlay, in command-line order
ArgOverlays == {<<>>, <<FAbsent>>, <<O_both>>, <<O_node2, O_both>>}

\* --replace RUNTIME VERSION, in command-line order
ArgReplacements ==
    {<<>>, <<<<"node", "2">>>>, <<<<"python", "1">>, <<"python", "2">>>>}

NoPair == <<"", "">>

\* the subcommands with their flags and positional arguments; apply is
\* also given a runtime no file holds, which makes a configuration of three
Subcommands ==
    {[name |-> n, full |-> FALSE, skip_check |-> FALSE, pair |-> NoPair] :
        n \in {"none", "check", "scope", "template"}}
    \cup {[name |-> "apply", full |-> f, skip_check |-> u, pair |-> <<r, v>>] :
            f \in BOOLEAN, u \in BOOLEAN, r \in Runtimes, v \in {"2"}}
    \cup {[name |-> "apply", full |-> TRUE, skip_check |-> u, pair |-> NoPair] :
            u \in BOOLEAN}
    \cup {[name |-> "apply", full |-> FALSE, skip_check |-> FALSE,
           pair |-> <<"ruby", "2">>]}

\* the exit codes the child of scope is drawn from; -1 is a child killed by
\* a signal (status.code() is None), -2 a child that could not be started
ChildOutcomes == {0, 3, -1, -2}

\* a path or a delimiter of the text of PATH: kind is "dir" (a version
\* directory, or a search path sub joined to it), "delim" or "entry" (a
\* directory of the inherited PATH)
PathToken(kind, rt, ver, sub) == [kind |-> kind, rt |-> rt, ver |-> ver, sub |-> sub]

\* delim of exec
delim == PathToken("delim", "", "", "")

\* Runtime::get_version, and version_dir.join(search_path)
version_dir(rt, ver) == PathToken("dir", rt, ver, "")
proper_search_buf(rt, ver, search_path) == PathToken("dir", rt, ver, search_path)

\* metadata.search_paths of each runtime's meta.ron
search_paths(rt) == IF rt = "node" THEN <<"bin">> ELSE <<"bin", "lib">>

\* the value of the PATH main runs with: unset, or a text of directories
\* and delimiters
Unset == [set |-> FALSE, text |-> <<>>]
Inherited(text) == [set |-> TRUE, text |-> text]
UsrBin == PathToken("entry", "", "", "/usr/bin")
Bin == PathToken("entry", "", "", "/bin")
InheritedPaths ==
    {Unset, Inherited(<<>>), Inherited(<<UsrBin>>), Inherited(<<UsrBin, delim, Bin>>)}

\* exec, lines 206-210: the version directory of each runtime and its
\* search paths, in the order the HashMap iterates
RECURSIVE exec_paths(_, _)
exec_paths(cfg, order) ==
    IF order = <<>> THEN <<>>
    ELSE LET rt == Head(order)
             found == [i \in DOMAIN search_paths(rt) |->
                          proper_search_buf(rt, cfg[rt], search_paths(rt)[i])]
         IN  <<version_dir(rt, cfg[rt])>> \o found \o exec_paths(cfg, Tail(order))

\* the loop of lines 223-228: a delimiter and the path, for each path that
\* to_str converts
RECURSIVE push_rest(_, _)
push_rest(rest, utf8) ==
    IF rest = <<>> THEN <<>>
    ELSE (IF utf8 THEN <<delim, Head(rest)>> ELSE <<>>) \o push_rest(Tail(rest), utf8)

\* exec, lines 213-234: the text of PATH given to the child; utf8 is
\* whether to_str converts the paths (they lie under the home directory)
exec_PATH(paths, utf8, path) ==
    LET first == IF paths # <<>> /\ utf8 THEN <<Head(paths)>> ELSE <<>>
        rest == IF paths # <<>> THEN push_rest(Tail(paths), utf8) ELSE <<>>
        good_path == IF path.set THEN <<delim>> \o path.text ELSE <<>>
    IN  first \o rest \o good_path

\* exec with the program taken from $SHELL before args
exec_program_shell_first(args, shell, windows) ==
    IF shell.set THEN shell.text
    ELSE IF args # <<>> THEN Head(args)
    ELSE IF windows THEN "cmd" ELSE "sh"

\* exec, lines 196-205: the program of the Command; args is the deque
\* before pop_front, shell the result of env::var("SHELL")
exec_program(args, shell, windows) ==
    IF args # <<>> THEN Head(args)
    ELSE IF shell.set THEN shell.text
    ELSE IF windows THEN "cmd" ELSE "sh"

\* exec, line 212: cmd.args(deque), the deque after pop_front
exec_args(args) == IF args # <<>> THEN Tail(args) ELSE <<>>

\* usize::MAX of a 64-bit target, in decimal
usize_MAX ==
    <<"1", "8", "4", "4", "6", "7", "4", "4", "0", "7",
      "3", "7", "0", "9", "5", "5", "1", "6", "1", "5">>

\* a decimal numeral without its leading zeros
RECURSIVE strip_zeros(_)
strip_zeros(t) ==
    IF Len(t) > 1 /\ Head(t) = "0" THEN strip_zeros(Tail(t)) ELSE t

\* the index of a digit character in DigitChars, less one: its value
digit_value(c) == (CHOOSE i \in DOMAIN DigitChars : DigitChars[i] = c) - 1

\* a < b for numerals without leading zeros
RECURSIVE numeral_less(_, _)
numeral_less(a, b) ==
    IF Len(a) # Len(b) THEN Len(a) < Len(b)
    ELSE IF a = <<>> THEN FALSE
    ELSE IF Head(a) # Head(b) THEN digit_value(Head(a)) < digit_value(Head(b))
    ELSE numeral_less(Tail(a), Tail(b))

\* str::parse::<usize>: an optional "+", then one decimal digit or more,
\* of a value that fits a usize
parse_usize(text) ==
    LET body == IF text # <<>> /\ Head(text) = "+" THEN Tail(text) ELSE text
        digits == body # <<>> /\ \A i \in DOMAIN body :
                                    \E j \in DOMAIN DigitChars : body[i] = DigitChars[j]
    IN  IF ~digits THEN [ok |-> FALSE, n |-> <<>>]
        ELSE IF numeral_less(usize_MAX, strip_zeros(body)) THEN [ok |-> FALSE, n |-> <<>>]
        ELSE [ok |-> TRUE, n |-> strip_zeros(body)]

\* n + 1 on a numeral
RECURSIVE numeral_succ(_)
numeral_succ(n) ==
    IF n = <<>> THEN <<"1">>
    ELSE LET last == n[Len(n)]
             front == SubSeq(n, 1, Len(n) - 1)
         IN  IF last = "9" THEN numeral_succ(front) \o <<"0">>
             ELSE front \o <<DigitChars[digit_value(last) + 2]>>

\* exec, lines 235-244: the text of VER_SCOPE given to the child; data + 1
\* on usize::MAX panics in a build with overflow checks and wraps to 0 in
\* one without
exec_VER_SCOPE(var, overflow_checks) ==
    IF var.set /\ parse_usize(var.text).ok
    THEN LET data == parse_usize(var.text).n
         IN  IF data = usize_MAX
             THEN (IF overflow_checks THEN [panicked |-> TRUE, text |-> <<>>]
                   ELSE [panicked |-> FALSE, text |-> <<"0">>])
             ELSE [panicked |-> FALSE, text |-> numeral_succ(data)]
    ELSE [panicked |-> FALSE, text |-> <<"1">>]

\* io::Result<Command>, or the panic of exec
Command(program, args, PATH, VER_SCOPE) ==
    [outcome |-> "Ok", program |-> program, args |-> args, PATH |-> PATH,
     VER_SCOPE |-> VER_SCOPE, VER_OVERRIDE |-> <<"1">>, err |-> NoError]
NoCommand(outcome, e) ==
    [outcome |-> outcome, program |-> "", args |-> <<>>, PATH |-> <<>>,
     VER_SCOPE |-> <<>>, VER_OVERRIDE |-> <<>>, err |-> e]

\* the arguments and the environment exec is called with
ExecArgs == {<<>>, <<"node">>, <<"node", "-v", "x">>}
ShellVars == {[set |-> FALSE, text |-> ""], [set |-> TRUE, text |-> "/bin/zsh"]}
ScopeVars ==
    {Unset, Inherited(<<>>), Inherited(<<"a">>), Inherited(<<"-", "1">>),
     Inherited(<<"0">>), Inherited(<<"9">>), Inherited(<<"0", "4", "1">>), Inherited(<<"+", "1">>),
     Inherited(usize_MAX), Inherited(numeral_succ(usize_MAX))}
ExecConfigs ==
    {EmptyMap, [r \in {"node"} |-> "1"],
     [r \in {"node", "python"} |-> IF r = "node" THEN "1" ELSE "2"]}

\* what the file system holds for a Runtime that was constructed
LoadedStates == {st \in PairStates : st.meta}

\* the paths get_version_search_paths tests for a runtime and a version
tested_paths(rt, ver) ==
    {version_dir(rt, ver)}
        \cup {proper_search_buf(rt, ver, search_paths(rt)[i]) : i \in DOMAIN search_paths(rt)}

\* io::Result<Vec<PathBuf>>
IoOk(paths) == [ok |-> TRUE, paths |-> paths, kind |-> "", err |-> NoError]
IoErr(kind, e) == [ok |-> FALSE, paths |-> <<>>, kind |-> kind, err |-> e]

\* the loop of get_version_search_paths that leaves out a search path that
\* does not exist
RECURSIVE search_loop_lenient(_, _, _, _, _)
search_loop_lenient(rt, ver, rest, existing, paths) ==
    IF rest = <<>> THEN IoOk(paths)
    ELSE LET buf == proper_search_buf(rt, ver, Head(rest))
         IN  search_loop_lenient(rt, ver, Tail(rest), existing,
                                 IF buf \in existing THEN Append(paths, buf) ELSE paths)

\* get_version_search_paths, lines 126-141: the loop over
\* metadata.search_paths; existing is the set of paths try_exists finds
RECURSIVE search_loop(_, _, _, _, _)
search_loop(rt, ver, rest, existing, paths) ==
    IF rest = <<>> THEN IoOk(paths)
    ELSE LET buf == proper_search_buf(rt, ver, Head(rest))
         IN  IF buf \in existing
             THEN search_loop(rt, ver, Tail(rest), existing, Append(paths, buf))
             ELSE IoErr("NotFound", E_SearchPathNotFound)

\* Runtime::get_version_search_paths with the paths it returns: the version
\* directory is tested by get_safe_version, then each search path in turn
Runtime_get_version_search_paths(rt, ver, existing) ==
    IF version_dir(rt, ver) \notin existing
    THEN IoErr("NotFound", E_VersionNotFound)
    ELSE search_loop(rt, ver, search_paths(rt), existing, <<>>)

\* no child: exec was not reached or failed
NoChild == [spawned |-> FALSE, inherited |-> Unset, home_utf8 |-> TRUE, PATH |-> <<>>]

(***************************************************************************)
(* The deserializer, from_str<T>(input): a cursor over the input and the    *)
(* category the target type expects.  A result is a record of one shape:    *)
(* ok, the cursor after the production, and the value recognized.           *)
(***************************************************************************)
R(is_ok, pos, v) == [ok |-> is_ok, pos |-> pos, v |-> v]

Failed == R(FALSE, 0, VUnit)

\* whitespace skipped between tokens
WhitespaceBytes == {" ", "\t", "\n", "\r"}

\* what separates siblings: any of ":", space, tab, newline, in any number
DelimiterBytes == WhitespaceBytes \cup {":"}

IdentifierBytes ==
    {"a", "b", "c", "d", "e", "f", "g", "h", "i", "j", "k", "l", "m", "n", "o",
     "p", "q", "r", "s", "t", "u", "v", "w", "x", "y", "z",
     "A", "B", "C", "D", "E", "F", "G", "H", "I", "J", "K", "L", "M", "N", "O",
     "P", "Q", "R", "S", "T", "U", "V", "W", "X", "Y", "Z",
     "0", "1", "2", "3", "4", "5", "6", "7", "8", "9", "_"}

\* the byte under the cursor, "" at the end of the input
peek(input, pos) == IF pos >= 1 /\ pos <= Len(input) THEN input[pos] ELSE ""

\* the cursor after the longest run of bytes of the set
RECURSIVE skip(_, _, _)
skip(input, pos, bytes) ==
    IF peek(input, pos) \in bytes THEN skip(input, pos + 1, bytes) ELSE pos

\* the literal lit is at the cursor
looking_at(input, pos, lit) ==
    /\ pos + Len(lit) - 1 <= Len(input)
    /\ SubSeq(input, pos, pos + Len(lit) - 1) = lit

\* the cursor at the next byte b, or past the end
RECURSIVE find(_, _, _)
find(input, pos, b) ==
    IF pos > Len(input) \/ input[pos] = b THEN pos ELSE find(input, pos + 1, b)

\* the number a run of digits denotes, accumulated with the sign so that
\* the least value of a width is reached without overflow
RECURSIVE parse_digits(_, _, _)
parse_digits(digits, sign, acc) ==
    IF digits = <<>> THEN acc
    ELSE parse_digits(Tail(digits), sign,
                      acc * 10
                          + sign * ((CHOOSE d \in 1..10 : DigitChars[d] = Head(digits)) - 1))

\* the value fits the target width (the widths of 32 bits and more hold
\* every number TLC's integers hold)
fits(k, n) ==
    CASE k = "i8" -> n >= -128 /\ n <= 127
      [] k = "i16" -> n >= -32768 /\ n <= 32767
      [] k = "u8" -> n >= 0 /\ n <= 255
      [] k = "u16" -> n >= 0 /\ n <= 65535
      [] k \in {"u32", "u64"} -> n >= 0
      [] OTHER -> TRUE

\* integer: optional sign, longest run of digits, reparsed into the width
parse_integer(k, input, pos) ==
    LET negative == peek(input, pos) = "-"
        first == IF negative THEN pos + 1 ELSE pos
        last == skip(input, first, {DigitChars[d] : d \in 1..10})
    IN  IF last = first THEN Failed
        ELSE LET n == parse_digits(SubSeq(input, first, last - 1),
                                   IF negative THEN -1 ELSE 1, 0)
             IN  IF fits(k, n) THEN R(TRUE, last, VInt(k, n)) ELSE Failed

\* string in key context: the run of bytes up to "->", a delimiter or "}"
RECURSIVE key_end(_, _)
key_end(input, pos) ==
    IF \/ pos > Len(input)
       \/ input[pos] \in DelimiterBytes \cup {"}"}
       \/ looking_at(input, pos, <<"-", ">">>)
    THEN pos
    ELSE key_end(input, pos + 1)

\* key_str: identifier bytes, no surrounding quotes
parse_key_str(input, pos) ==
    LET last == key_end(input, pos)
        run == SubSeq(input, pos, last - 1)
    IN  IF run # <<>> /\ \A i \in 1..Len(run) : run[i] \in IdentifierBytes
        THEN R(TRUE, last, VStr(run))
        ELSE Failed

\* the declared fields of a struct or struct variant named name
fields_named(ty, name) == {i \in 1..Len(ty.items) : ty.items[i].s = name}

\* the entries in the order of the declared fields, when each declared
\* field has exactly one entry
by_declaration(ty, entries) ==
    [i \in 1..Len(ty.items) |->
        entries[CHOOSE j \in 1..Len(entries) : entries[j].items[1].s = ty.items[i].s]]

complete(ty, entries) ==
    /\ Len(entries) = Len(ty.items)
    /\ \A i \in 1..Len(ty.items) :
          \E j \in 1..Len(entries) : entries[j].items[1].s = ty.items[i].s

RECURSIVE parse_value(_, _, _)
RECURSIVE parse_elements(_, _, _, _)
RECURSIVE parse_tuple(_, _, _, _)
RECURSIVE parse_pairs(_, _, _, _)

\* sequence: zero or more elements separated by delimiters, "]"
parse_elements(t, input, pos, acc) ==
    LET p == skip(input, pos, IF acc = <<>> THEN WhitespaceBytes ELSE DelimiterBytes)
    IN  IF peek(input, p) = "]" THEN R(TRUE, p + 1, VSeq(acc))
        ELSE IF acc # <<>> /\ p = pos THEN Failed
        ELSE LET r == parse_value(t, input, p)
             IN  IF r.ok THEN parse_elements(t, input, r.pos, Append(acc, r.v))
                 ELSE Failed

\* tuple: one element per component type, separated by delimiters, ")"
parse_tuple(ts, input, pos, acc) ==
    LET p == skip(input, pos, IF acc = <<>> THEN WhitespaceBytes ELSE DelimiterBytes)
    IN  IF ts = <<>>
        THEN IF peek(input, p) = ")" THEN R(TRUE, p + 1, VTuple(acc)) ELSE Failed
        ELSE IF acc # <<>> /\ p = pos THEN Failed
        ELSE LET r == parse_value(Head(ts), input, p)
             IN  IF r.ok THEN parse_tuple(Tail(ts), input, r.pos, Append(acc, r.v))
                 ELSE Failed

\* map / struct: zero or more key -> value pairs separated by delimiters,
\* "}"; an unknown struct key and a missing "->" are errors
parse_pairs(ty, input, pos, acc) ==
    LET p == skip(input, pos, IF acc = <<>> THEN WhitespaceBytes ELSE DelimiterBytes)
    IN  IF peek(input, p) = "}" THEN R(TRUE, p + 1, VMap(acc))
        ELSE IF acc # <<>> /\ p = pos THEN Failed
        ELSE LET key == IF ty.k = "map" /\ ty.items[1].k # "str"
                        THEN parse_value(ty.items[1], input, p)
                        ELSE parse_key_str(input, p)
                 arrow == skip(input, key.pos, WhitespaceBytes)
             IN  IF ~key.ok \/ ~looking_at(input, arrow, <<"-", ">">>) THEN Failed
                 ELSE IF ty.k # "map" /\ fields_named(ty, key.v.s) = {} THEN Failed
                 ELSE LET vt == IF ty.k = "map" THEN ty.items[2]
                                ELSE ty.items[CHOOSE i \in fields_named(ty, key.v.s) :
                                                  TRUE].items[1]
                          r == parse_value(vt, input,
                                           skip(input, arrow + 2, WhitespaceBytes))
                      IN  IF r.ok
                          THEN parse_pairs(ty, input, r.pos,
                                           Append(acc, VEntry(key.v, r.v)))
                          ELSE Failed

\* tagged variant: "$", identifier, then the shape the variant of that tag
\* has in the expected union
parse_variant(ty, input, pos) ==
    LET last == skip(input, pos + 1, IdentifierBytes)
        tag == SubSeq(input, pos + 1, last - 1)
        known == {i \in 1..Len(ty.items) : ty.items[i].s = tag}
    IN  IF peek(input, pos) # "$" \/ known = {} THEN Failed
        ELSE LET vt == ty.items[CHOOSE i \in known : TRUE]
             IN  CASE vt.k = "unit_variant" -> R(TRUE, last, VUnitVariant(tag))
                   [] vt.k = "newtype_variant" ->
                        IF peek(input, last) # "(" THEN Failed
                        ELSE LET r == parse_value(vt.items[1], input,
                                                  skip(input, last + 1, WhitespaceBytes))
                                 close == skip(input, r.pos, WhitespaceBytes)
                             IN  IF r.ok /\ peek(input, close) = ")"
                                 THEN R(TRUE, close + 1, VNewtypeVariant(tag, r.v))
                                 ELSE Failed
                   [] vt.k = "tuple_variant" ->
                        IF peek(input, last) # "(" THEN Failed
                        ELSE LET r == parse_tuple(vt.items, input, last + 1, <<>>)
                             IN  IF r.ok
                                 THEN R(TRUE, r.pos, VTupleVariant(tag, r.v.items))
                                 ELSE Failed
                   [] vt.k = "struct_variant" ->
                        IF peek(input, last) # "{" THEN Failed
                        ELSE LET r == parse_pairs(vt, input, last + 1, <<>>)
                             IN  IF r.ok /\ r.v.items # <<>> /\ complete(vt, r.v.items)
                                 THEN R(TRUE, r.pos,
                                        VStructVariant(tag, by_declaration(vt, r.v.items)))
                                 ELSE Failed

\* the production the expected category selects
parse_value(ty, input, pos) ==
    CASE ty.k = "bool" ->
            IF looking_at(input, pos, <<"t", "r", "u", "e">>)
            THEN R(TRUE, pos + 4, VBool(TRUE))
            ELSE IF looking_at(input, pos, <<"f", "a", "l", "s", "e">>)
            THEN R(TRUE, pos + 5, VBool(FALSE))
            ELSE Failed
      [] ty.k \in IntKinds -> parse_integer(ty.k, input, pos)
      [] ty.k = "char" ->
            IF peek(input, pos) = "'" /\ peek(input, pos + 1) # ""
                   /\ peek(input, pos + 2) = "'"
            THEN R(TRUE, pos + 3, VChar(input[pos + 1]))
            ELSE Failed
      [] ty.k = "str" ->
            LET close == find(input, pos + 1, "\"")
            IN  IF peek(input, pos) = "\"" /\ close <= Len(input)
                THEN R(TRUE, close + 1, VStr(SubSeq(input, pos + 1, close - 1)))
                ELSE Failed
      [] ty.k = "unit" ->
            IF peek(input, pos) = "/" THEN R(TRUE, pos + 1, VUnit) ELSE Failed
      [] ty.k = "unit_struct" ->
            IF peek(input, pos) = "/" THEN R(TRUE, pos + 1, VUnitStruct) ELSE Failed
      [] ty.k = "option" ->
            IF peek(input, pos) = "/" THEN R(TRUE, pos + 1, VNone)
            ELSE LET r == parse_value(ty.items[1], input, pos)
                 IN  IF r.ok THEN R(TRUE, r.pos, VSome(r.v)) ELSE Failed
      [] ty.k = "newtype_struct" ->
            LET r == parse_value(ty.items[1], input, pos)
            IN  IF r.ok THEN R(TRUE, r.pos, VNewtypeStruct(r.v)) ELSE Failed
      [] ty.k \in {"seq", "bytes"} ->
            IF peek(input, pos) # "[" THEN Failed
            ELSE LET r == parse_elements(IF ty.k = "bytes" THEN TU8 ELSE ty.items[1],
                                         input, pos + 1, <<>>)
                 IN  IF ~r.ok THEN Failed
                     ELSE IF ty.k = "bytes" THEN R(TRUE, r.pos, VBytes(r.v.items))
                     ELSE r
      [] ty.k \in {"tuple", "tuple_struct"} ->
            IF peek(input, pos) # "(" THEN Failed
            ELSE LET r == parse_tuple(ty.items, input, pos + 1, <<>>)
                 IN  IF ~r.ok THEN Failed
                     ELSE IF ty.k = "tuple_struct"
                     THEN R(TRUE, r.pos, VTupleStruct(r.v.items))
                     ELSE r
      [] ty.k = "map" ->
            IF peek(input, pos) # "{" THEN Failed
            ELSE parse_pairs(ty, input, pos + 1, <<>>)
      [] ty.k = "struct" ->
            IF peek(input, pos) # "{" THEN Failed
            ELSE LET r == parse_pairs(ty, input, pos + 1, <<>>)
                 IN  IF r.ok /\ complete(ty, r.v.items)
                     THEN R(TRUE, r.pos, VStruct(by_declaration(ty, r.v.items)))
                     ELSE Failed
      [] ty.k = "enum" -> parse_variant(ty, input, pos)
      [] OTHER -> Failed

\* from_str: the value, when the whole input is consumed up to trailing
\* whitespace
from_str(ty, input) ==
    LET r == parse_value(ty, input, skip(input, 1, WhitespaceBytes))
    IN  IF r.ok /\ skip(input, r.pos, WhitespaceBytes) = Len(input) + 1
        THEN [ok |-> TRUE, v |-> r.v]
        ELSE [ok |-> FALSE, v |-> VUnit]

(***************************************************************************)
(* State.                                                                   *)
(***************************************************************************)
VARIABLES
    phase,            \* "idle", "running" (inside to_string), "returned",
                      \* "failed" (to_string returned Err), "decoded" (from_str
                      \* has read the result), "repeated" (to_string was
                      \* called again)
    ty,               \* the target type of the value passed to to_string
    val,              \* the value passed to to_string
    output,           \* Serializer.output
    mode,             \* Serializer.mode
    pretty,           \* Serializer.pretty
    indent_tracking,  \* Serializer.indent_tracking
    tasks,            \* the calls the adapter still has to make
    result,           \* the String to_string returned
    error,            \* the Error to_string returned: <<>> or <<e>>
    previous,         \* the String an earlier call returned for the same value
    decoded,          \* what from_str made of result
    pc,               \* where main is: "idle", "start", "parsed", "env_overlaid",
                      \* "arg_overlaid", "replaced", "finished", "exited"
    program,          \* which main runs: "main" (src/main.rs) or "verune"
                      \* (verune/src/main.rs)
    args,             \* the command line: subcommand, --overlay, --replace
    env,              \* VERUNE_OVERLAYS
    file,             \* the file at config_path
    file0,            \* the file at config_path when main started
    config,           \* main's config
    config_copy,      \* main's config_copy
    installed,        \* the file system, for the pairs of the configuration
    error_status,     \* main's error_status
    stderr,           \* the lines written to standard error
    stdout,           \* the lines written to standard output
    wrote,            \* whether main has written the file at config_path
    exit_code,        \* the status main exited with
    child,            \* the Command exec built and the child run from it
    lib_call,         \* the function of libver or ruleport::error called on
                      \* its own, with its arguments
    lib_ret           \* what the function returned

serVars ==
    <<phase, ty, val, output, mode, pretty, indent_tracking, tasks, result, error,
      previous, decoded>>

cliVars == <<pc, program, args, env, file, file0, config, config_copy, installed,
             error_status, stderr, stdout, wrote, exit_code, child>>

libVars == <<lib_call, lib_ret>>

vars == <<serVars, cliVars, libVars>>

\* the Serializer as one record
Self ==
    [output |-> output, mode |-> mode, pretty |-> pretty,
     indent_tracking |-> indent_tracking]

SerInit ==
    /\ phase = "idle"
    /\ ty = TUnit
    /\ val = VUnit
    /\ output = <<>>
    /\ mode = "Normal"
    /\ pretty = PrettyConfig_default
    /\ indent_tracking = 0
    /\ tasks = <<>>
    /\ result = <<>>
    /\ error = <<>>
    /\ previous = <<>>
    /\ decoded = [ok |-> FALSE, v |-> VUnit]

CliInit ==
    /\ pc = "idle"
    /\ program = "main"
    /\ args = [sub |-> [name |-> "none", full |-> FALSE, skip_check |-> FALSE,
                        pair |-> NoPair],
               overlay |-> <<>>, replace |-> <<>>]
    /\ env = [set |-> FALSE, files |-> <<>>]
    /\ file = FAbsent
    /\ file0 = FAbsent
    /\ config = None
    /\ config_copy = None
    /\ installed = EmptyMap
    /\ error_status = Status(1, "No subcommand was passed to verune", NoError, FALSE)
    /\ stderr = <<>>
    /\ stdout = <<>>
    /\ wrote = FALSE
    /\ exit_code = -1
    /\ child = NoChild

NoCall == [fn |-> "none"]

LibInit ==
    /\ lib_call = NoCall
    /\ lib_ret = NoCall

Init == SerInit /\ CliInit /\ LibInit

\* value.serialize(&mut serializer) is about to be called on a Serializer
\* just constructed with the pretty config p
Enter(tv, p) ==
    /\ phase' = "running"
    /\ ty' = tv.ty
    /\ val' = tv.v
    /\ output' = NewSerializer(p).output
    /\ mode' = NewSerializer(p).mode
    /\ pretty' = NewSerializer(p).pretty
    /\ indent_tracking' = NewSerializer(p).indent_tracking
    /\ tasks' = <<Task("value", tv.v)>>
    /\ UNCHANGED <<result, error, previous, decoded, cliVars, libVars>>

\* to_string, up to value.serialize
CallToString ==
    /\ phase = "idle"
    /\ \E tv \in Catalogue : Enter(tv, PrettyConfig_default)

\* to_string_pretty, up to value.serialize
CallToStringPretty ==
    /\ phase = "idle"
    /\ \E tv \in Catalogue, p \in PrettyConfigs : Enter(tv, p)

\* the adapter is about to call value.serialize for a value of kind k
OnValue(k) ==
    /\ phase = "running"
    /\ tasks # <<>>
    /\ Head(tasks).op = "value"
    /\ Head(tasks).v.k = k

\* the adapter is about to make the call op
OnOp(op) ==
    /\ phase = "running"
    /\ tasks # <<>>
    /\ Head(tasks).op = op

\* the call is made
Advance ==
    LET r == Call(Self, tasks)
    IN  /\ output' = r.self.output
        /\ mode' = r.self.mode
        /\ indent_tracking' = r.self.indent_tracking
        /\ tasks' = r.tasks
        /\ UNCHANGED <<phase, ty, val, pretty, result, error, previous, decoded,
                       cliVars, libVars>>

SerializeBool == OnValue("bool") /\ Advance
SerializeI8 == OnValue("i8") /\ Advance
SerializeI16 == OnValue("i16") /\ Advance
SerializeI32 == OnValue("i32") /\ Advance
SerializeI64 == OnValue("i64") /\ Advance
SerializeU8 == OnValue("u8") /\ Advance
SerializeU16 == OnValue("u16") /\ Advance
SerializeU32 == OnValue("u32") /\ Advance
SerializeU64 == OnValue("u64") /\ Advance
SerializeChar == OnValue("char") /\ Advance
SerializeStr == OnValue("str") /\ Advance
SerializeBytes == OnValue("bytes") /\ Advance
SerializeNone == OnValue("none") /\ Advance
SerializeSome == OnValue("some") /\ Advance
SerializeUnit == OnValue("unit") /\ Advance
SerializeUnitStruct == OnValue("unit_struct") /\ Advance
SerializeUnitVariant == OnValue("unit_variant") /\ Advance
SerializeNewtypeStruct == OnValue("newtype_struct") /\ Advance
SerializeNewtypeVariant == OnValue("newtype_variant") /\ Advance
SerializeNewtypeVariantClose == OnOp("newtype_variant_close") /\ Advance
SerializeSeq == OnValue("seq") /\ Advance
SerializeTuple == OnValue("tuple") /\ Advance
SerializeTupleStruct == OnValue("tuple_struct") /\ Advance
SerializeTupleVariant == OnValue("tuple_variant") /\ Advance
SerializeMap == OnValue("map") /\ Advance
SerializeStruct == OnValue("struct") /\ Advance
SerializeStructVariant == OnValue("struct_variant") /\ Advance
SeqSerializeElement == OnOp("seq_element") /\ Advance
SeqEnd == OnOp("seq_end") /\ Advance
TupleSerializeElement == OnOp("tuple_element") /\ Advance
TupleEnd == OnOp("tuple_end") /\ Advance
TupleStructSerializeField == OnOp("tuple_struct_field") /\ Advance
TupleStructEnd == OnOp("tuple_struct_end") /\ Advance
TupleVariantSerializeField == OnOp("tuple_variant_field") /\ Advance
TupleVariantEnd == OnOp("tuple_variant_end") /\ Advance
MapSerializeKey == OnOp("map_key") /\ Advance
MapSerializeValue == OnOp("map_value") /\ Advance
MapEnd == OnOp("map_end") /\ Advance
StructSerializeField == OnOp("struct_field") /\ Advance
StructEnd == OnOp("struct_end") /\ Advance
StructVariantSerializeField == OnOp("struct_variant_field") /\ Advance
StructVariantEnd == OnOp("struct_variant_end") /\ Advance

\* Ok(serializer.output)
Return ==
    /\ phase = "running"
    /\ tasks = <<>>
    /\ phase' = "returned"
    /\ result' = output
    /\ UNCHANGED <<ty, val, output, mode, pretty, indent_tracking, tasks, error,
                   previous, decoded, cliVars, libVars>>

\* value.serialize(&mut serializer)? where the adapter returns Err(e) from
\* one of its steps: to_string returns Err(e), and the Serializer with its
\* output is dropped
AdapterError ==
    /\ phase = "running"
    /\ tasks # <<>>
    /\ \E e \in AdapterErrors :
          LET r == short_circuit(Self, e)
          IN  /\ result' = r.result
              /\ error' = r.error
    /\ phase' = "failed"
    /\ output' = <<>>
    /\ mode' = "Normal"
    /\ indent_tracking' = 0
    /\ tasks' = <<>>
    /\ UNCHANGED <<ty, val, pretty, previous, decoded, cliVars, libVars>>

\* from_str::<T>(&text) on the text to_string returned, T the type of the
\* value serialized
FromStr ==
    /\ phase = "returned"
    /\ phase' = "decoded"
    /\ decoded' = from_str(ty, result)
    /\ UNCHANGED <<ty, val, output, mode, pretty, indent_tracking, tasks, result,
                   error, previous, cliVars, libVars>>

\* to_string_pretty called once more, writing with the Serializer of the
\* call before
CallAgain_reusing ==
    /\ phase = "decoded"
    /\ phase' = "repeated"
    /\ previous' = result
    /\ result' = Drive(Self, <<Task("value", val)>>).output
    /\ UNCHANGED <<ty, val, output, mode, pretty, indent_tracking, tasks, error,
                   decoded, cliVars, libVars>>

\* to_string_pretty called once more on the same value with the same
\* config, the adapter making the same calls: the whole call in one step
CallAgain ==
    /\ phase = "decoded"
    /\ phase' = "repeated"
    /\ previous' = result
    /\ result' = to_string_pretty(val, pretty)
    /\ UNCHANGED <<ty, val, output, mode, pretty, indent_tracking, tasks, error,
                   decoded, cliVars, libVars>>

(***************************************************************************)
(* main of src/main.rs, block by block.                                     *)
(***************************************************************************)
\* the process is started: a command line, an environment and a file at
\* config_path
MainInvoke ==
    /\ pc = "idle"
    /\ \E sub \in Subcommands, o \in ArgOverlays, r \in ArgReplacements,
          e \in EnvOverlays, f \in BaseFiles :
          /\ args' = [sub |-> sub, overlay |-> o, replace |-> r]
          /\ env' = e
          /\ file' = f
          /\ file0' = f
    /\ pc' = "start"
    /\ program' = "main"
    /\ UNCHANGED <<config, config_copy, installed, error_status, stderr, stdout,
                   wrote, exit_code, child, serVars, libVars>>

\* lines 125-140: config and config_copy
MainParseConfig ==
    /\ pc = "start"
    /\ program = "main"
    /\ config' = ok(conf_parse(file))
    /\ config_copy' = IF args.sub.name = "apply" /\ ~args.sub.full
                      THEN ok(conf_parse(file))
                      ELSE None
    /\ pc' = "parsed"
    /\ UNCHANGED <<program, args, env, file, file0, installed, error_status, stderr,
                   stdout, wrote, exit_code, child, serVars, libVars>>

\* Option::is_none, Some(HashMap::with_capacity(..)), as_mut().unwrap()
config_data(c) == IF c.some THEN c.map ELSE EmptyMap

\* lines 155-163: VERUNE_OVERLAYS
MainEnvOverlays ==
    /\ pc = "parsed"
    /\ program = "main"
    /\ config' = IF env.set THEN Some(config_merge(config_data(config), env.files))
                 ELSE config
    /\ pc' = "env_overlaid"
    /\ UNCHANGED <<program, args, env, file, file0, config_copy, installed,
                   error_status, stderr, stdout, wrote, exit_code, child, serVars, libVars>>

\* lines 165-171: --overlay
MainArgOverlays ==
    /\ pc = "env_overlaid"
    /\ program = "main"
    /\ config' = IF args.overlay # <<>>
                 THEN Some(config_merge(config_data(config), args.overlay))
                 ELSE config
    /\ pc' = "arg_overlaid"
    /\ UNCHANGED <<program, args, env, file, file0, config_copy, installed,
                   error_status, stderr, stdout, wrote, exit_code, child, serVars, libVars>>

\* lines 173-182: --replace
MainReplacements ==
    /\ pc = "arg_overlaid"
    /\ program = "main"
    /\ config' = IF args.replace # <<>>
                 THEN Some(replace_all(config_data(config), args.replace))
                 ELSE config
    /\ pc' = "replaced"
    /\ UNCHANGED <<program, args, env, file, file0, config_copy, installed,
                   error_status, stderr, stdout, wrote, exit_code, child, serVars, libVars>>

\* the branch of main for the subcommand sub is reached
AtBranch(prog, at, sub) == pc = at /\ program = prog /\ args.sub.name = sub

\* verify_config!: no configuration, exit(2)
verify_config_exit ==
    /\ ~config.some
    /\ stderr' = Append(stderr, <<"No configuration data was provided">>)
    /\ exit_code' = 2
    /\ pc' = "exited"
    /\ UNCHANGED <<program, args, env, file, file0, config, config_copy, installed,
                   error_status, stdout, wrote, child, serVars, libVars>>

\* the lines the check loop prints: one per runtime whose check fails
RECURSIVE check_lines(_, _)
check_lines(order, results) ==
    IF order = <<>> THEN <<>>
    ELSE (IF Head(results) # NoError
          THEN <<<<Head(order), Head(results)>>>>
          ELSE <<>>) \o check_lines(Tail(order), Tail(results))

\* a branch ends with this error_status
Finish(st) ==
    /\ error_status' = st
    /\ pc' = "finished"

\* lines 184-210: check
MainCheck ==
    /\ AtBranch("main", "replaced", "check")
    /\ \/ verify_config_exit
       \/ /\ config.some
          /\ \E fs \in [DOMAIN config.map -> PairStates],
                order \in Orders(DOMAIN config.map) :
                /\ installed' = fs
                /\ IF conf_collect(fs, order) # NoError
                   THEN /\ Finish(Status(1,
                                         "Configuration parsing error",
                                         conf_collect(fs, order),
                                         FALSE))
                        /\ UNCHANGED stderr
                   ELSE LET lines == check_lines(order, [i \in DOMAIN order |->
                                                          get_version_search_paths(fs[order[i]])])
                        IN  /\ stderr' = stderr \o lines
                            /\ Finish(IF lines # <<>>
                                      THEN Status(1,
                                                  "Issues above must be resolved to safely continue using verune",
                                                  NoError, FALSE)
                                      ELSE Status(0,
                                                  "All runtimes are properly installed",
                                                  NoError, TRUE))
          /\ UNCHANGED <<program, args, env, file, file0, config, config_copy,
                         stdout, wrote, exit_code, child, serVars, libVars>>

\* fs::write of the configuration m to config_path: it succeeds or fails
write_config(m, ok_status) ==
    \/ /\ file' = FMap(m)
       /\ wrote' = TRUE
       /\ Finish(ok_status)
    \/ /\ Finish(Status(1, "Could not write to configuration file", E_WriteFailed, FALSE))
       /\ UNCHANGED <<file, wrote>>

\* lines 211-299: apply
MainApply ==
    /\ AtBranch("main", "replaced", "apply")
    /\ LET base == IF config_copy.some THEN config_copy.map ELSE config_data(config)
           cfg == IF args.sub.pair # NoPair
                  THEN Insert(base, args.sub.pair[1], args.sub.pair[2])
                  ELSE base
       IN  \E fs \in [DOMAIN cfg -> PairStates], order \in Orders(DOMAIN cfg) :
             LET checked == runtime_check(fs, order, 1, <<>>)
             IN  /\ installed' = fs
                 /\ IF ~args.sub.skip_check /\ checked.broke
                    THEN /\ Finish(Status(2, "Could not find runtime",
                                          Runtime_new(fs[checked.at]), FALSE))
                         /\ UNCHANGED <<file, wrote, stderr>>
                    ELSE IF ~args.sub.skip_check /\ checked.errors # <<>>
                    THEN /\ stderr' = Append(stderr, retain(checked.errors))
                         /\ Finish(Status(1,
                                          "Issues above must be resolved in order to apply configuration changes",
                                          NoError, FALSE))
                         /\ UNCHANGED <<file, wrote>>
                    ELSE /\ write_config(cfg, Status(0,
                                                     "Successfully switched configuration",
                                                     NoError, TRUE))
                         /\ UNCHANGED stderr
    /\ UNCHANGED <<program, args, env, file0, config, config_copy, stdout, exit_code,
                   child, serVars, libVars>>

\* exec: the error of the first runtime whose version directory or search
\* path is missing, or NoError
exec(fs, order) ==
    FirstError([i \in DOMAIN order |-> get_version_search_paths(fs[order[i]])])

\* the child of scope has run: the error_status main takes from it
child_status(c) ==
    CASE c = -2 -> Status(1, "Execution error", E_SpawnFailed, FALSE)
      [] c = -1 -> Status(143,
                          "Successfully started program, but program was interrupted",
                          NoError, FALSE)
      [] OTHER -> Status(c, "Successfully started program, but error was returned", NoError, FALSE)

\* conf::collect, exec and the child, for the branch scope of both mains
scope_body ==
    /\ config.some
    /\ \E fs \in [DOMAIN config.map -> PairStates],
          order \in Orders(DOMAIN config.map), c \in ChildOutcomes,
          path \in InheritedPaths, utf8 \in BOOLEAN :
          /\ installed' = fs
          /\ Finish(IF conf_collect(fs, order) # NoError
                    THEN Status(1, "Configuration error", conf_collect(fs, order), FALSE)
                    ELSE IF exec(fs, order) # NoError
                    THEN Status(1, "Command error", exec(fs, order), FALSE)
                    ELSE child_status(c))
          /\ child' = IF conf_collect(fs, order) = NoError /\ exec(fs, order) = NoError
                      THEN [spawned |-> c # -2, inherited |-> path, home_utf8 |-> utf8,
                            PATH |-> exec_PATH(exec_paths(config.map, order), utf8, path)]
                      ELSE NoChild
    /\ UNCHANGED <<program, args, env, file, file0, config, config_copy, stderr,
                   stdout, wrote, exit_code, serVars, libVars>>

\* lines 300-339: scope
MainScope ==
    /\ AtBranch("main", "replaced", "scope")
    /\ (verify_config_exit \/ scope_body)

\* Runtime::get_runtime and the write of meta.ron, for the branch template
\* of both mains
template_body ==
    /\ \E st \in {Status(0, "Successfully wrote template for runtime", NoError, TRUE),
                  Status(1,
                         "Error when writing template for runtime",
                         E_WriteFailed, FALSE),
                  Status(1,
                         "Could not fetch runtime",
                         "Could not access home directory", FALSE)} :
          Finish(st)
    /\ UNCHANGED <<program, args, env, file, file0, config, config_copy, installed,
                   stderr, stdout, wrote, exit_code, child, serVars, libVars>>

\* lines 340-371: template
MainTemplate ==
    /\ AtBranch("main", "replaced", "template")
    /\ template_body

\* no subcommand: error_status keeps its first value
MainNoSubcommand ==
    /\ AtBranch("main", "replaced", "none")
    /\ pc' = "finished"
    /\ UNCHANGED <<program, args, env, file, file0, config, config_copy, installed,
                   error_status, stderr, stdout, wrote, exit_code, child, serVars, libVars>>

\* the last lines of both mains: the message is printed and the process
\* exits with error_status.0
exit_body ==
    /\ pc = "finished"
    /\ stdout' = IF error_status.good
                 THEN Append(stdout, <<error_status.msg, error_status.err>>)
                 ELSE stdout
    /\ stderr' = IF ~error_status.good /\ error_status.code # 0
                 THEN Append(stderr, <<error_status.msg, error_status.err>>)
                 ELSE stderr
    /\ exit_code' = error_status.code
    /\ pc' = "exited"
    /\ UNCHANGED <<program, args, env, file, file0, config, config_copy, installed,
                   error_status, wrote, child, serVars, libVars>>

\* lines 373-378
MainExit == program = "main" /\ exit_body

(***************************************************************************)
(* main of verune/src/main.rs: no overlays and no replacements, and switch  *)
(* instead of apply.                                                        *)
(***************************************************************************)
VeruneSubcommands ==
    {[name |-> n, full |-> FALSE, skip_check |-> FALSE, pair |-> NoPair] :
        n \in {"none", "check", "scope", "template"}}
    \cup {[name |-> "switch", full |-> FALSE, skip_check |-> u, pair |-> <<r, v>>] :
            u \in BOOLEAN, r \in Runtimes, v \in Versions}

VeruneInvoke ==
    /\ pc = "idle"
    /\ \E sub \in VeruneSubcommands, f \in BaseFiles :
          /\ args' = [sub |-> sub, overlay |-> <<>>, replace |-> <<>>]
          /\ file' = f
          /\ file0' = f
    /\ pc' = "start"
    /\ program' = "verune"
    /\ UNCHANGED <<env, config, config_copy, installed, error_status, stderr, stdout,
                   wrote, exit_code, child, serVars, libVars>>

\* lines 103-108
VeruneParseConfig ==
    /\ pc = "start"
    /\ program = "verune"
    /\ config' = ok(conf_parse(file))
    /\ pc' = "parsed"
    /\ UNCHANGED <<program, args, env, file, file0, config_copy, installed,
                   error_status, stderr, stdout, wrote, exit_code, child, serVars, libVars>>

\* lines 110-132: check, on Runtime::unsafe_new runtimes
VeruneCheck ==
    /\ AtBranch("verune", "parsed", "check")
    /\ \/ verify_config_exit
       \/ /\ config.some
          /\ \E fs \in [DOMAIN config.map -> PairStates],
                order \in Orders(DOMAIN config.map) :
                LET lines == check_lines(order, [i \in DOMAIN order |->
                                                        get_safe_version(fs[order[i]])])
                IN  /\ installed' = fs
                    /\ stderr' = stderr \o lines
                    /\ Finish(IF lines # <<>>
                              THEN Status(1,
                                          "Issues above must be resolved to safely continue using verune",
                                          NoError, FALSE)
                              ELSE Status(0,
                                          "All runtimes are properly installed",
                                          NoError, TRUE))
          /\ UNCHANGED <<program, args, env, file, file0, config, config_copy,
                         stdout, wrote, exit_code, child, serVars, libVars>>

\* lines 133-189: switch
VeruneSwitch ==
    /\ AtBranch("verune", "parsed", "switch")
    /\ LET rt == args.sub.pair[1]
           cfg == Insert(config_data(config), rt, args.sub.pair[2])
       IN  \E fs \in [DOMAIN cfg -> PairStates] :
             /\ installed' = fs
             /\ IF \/ args.sub.skip_check
                   \/ Runtime_new(fs[rt]) = NoError /\ get_safe_version(fs[rt]) = NoError
                THEN write_config(cfg, Status(0,
                                              "Successfully switched runtime",
                                              NoError, TRUE))
                ELSE /\ Finish(IF Runtime_new(fs[rt]) # NoError
                               THEN Status(1, "Could not find runtime", Runtime_new(fs[rt]),
                                           FALSE)
                               ELSE Status(2,
                                           "Runtime version could not be found",
                                           NoError, FALSE))
                     /\ UNCHANGED <<file, wrote>>
    /\ config' = Some(config_data(config))
    /\ UNCHANGED <<program, args, env, file0, config_copy, stderr, stdout, exit_code,
                   child, serVars, libVars>>

\* lines 190-229: scope
VeruneScope ==
    /\ AtBranch("verune", "parsed", "scope")
    /\ (verify_config_exit \/ scope_body)

\* lines 230-261: template
VeruneTemplate ==
    /\ AtBranch("verune", "parsed", "template")
    /\ template_body

VeruneNoSubcommand ==
    /\ AtBranch("verune", "parsed", "none")
    /\ pc' = "finished"
    /\ UNCHANGED <<program, args, env, file, file0, config, config_copy, installed,
                   error_status, stderr, stdout, wrote, exit_code, child, serVars, libVars>>

\* lines 263-268
VeruneExit == program = "verune" /\ exit_body

CliNext ==
    \/ MainInvoke
    \/ MainParseConfig
    \/ MainEnvOverlays
    \/ MainArgOverlays
    \/ MainReplacements
    \/ MainCheck
    \/ MainApply
    \/ MainScope
    \/ MainTemplate
    \/ MainNoSubcommand
    \/ MainExit
    \/ VeruneInvoke
    \/ VeruneParseConfig
    \/ VeruneCheck
    \/ VeruneSwitch
    \/ VeruneScope
    \/ VeruneTemplate
    \/ VeruneNoSubcommand
    \/ VeruneExit

SerNext ==
    \/ CallToString
    \/ CallToStringPretty
    \/ SerializeBool
    \/ SerializeI8
    \/ SerializeI16
    \/ SerializeI32
    \/ SerializeI64
    \/ SerializeU8
    \/ SerializeU16
    \/ SerializeU32
    \/ SerializeU64
    \/ SerializeChar
    \/ SerializeStr
    \/ SerializeBytes
    \/ SerializeNone
    \/ SerializeSome
    \/ SerializeUnit
    \/ SerializeUnitStruct
    \/ SerializeUnitVariant
    \/ SerializeNewtypeStruct
    \/ SerializeNewtypeVariant
    \/ SerializeNewtypeVariantClose
    \/ SerializeSeq
    \/ SerializeTuple
    \/ SerializeTupleStruct
    \/ SerializeTupleVariant
    \/ SerializeMap
    \/ SerializeStruct
    \/ SerializeStructVariant
    \/ SeqSerializeElement
    \/ SeqEnd
    \/ TupleSerializeElement
    \/ TupleEnd
    \/ TupleStructSerializeField
    \/ TupleStructEnd
    \/ TupleVariantSerializeField
    \/ TupleVariantEnd
    \/ MapSerializeKey
    \/ MapSerializeValue
    \/ MapEnd
    \/ StructSerializeField
    \/ StructEnd
    \/ StructVariantSerializeField
    \/ StructVariantEnd
    \/ Return
    \/ AdapterError
    \/ FromStr
    \/ CallAgain

(***************************************************************************)
(* The functions of libver and of ruleport::error, each called on its own   *)
(* with arguments drawn from the sets below.                                *)
(***************************************************************************)
\* a function is called once, from the state no function was called in
Fresh == lib_call = NoCall

Called(fn) == lib_call.fn = fn

\* runtime.get_version_search_paths(version)
GetVersionSearchPaths ==
    /\ Fresh
    /\ \E rt \in Runtimes, ver \in Versions :
          \E existing \in SUBSET tested_paths(rt, ver) :
             /\ lib_call' = [fn |-> "get_version_search_paths", rt |-> rt, ver |-> ver,
                             existing |-> existing]
             /\ lib_ret' = Runtime_get_version_search_paths(rt, ver, existing)
    /\ UNCHANGED <<serVars, cliVars>>

\* exec(args, config): the Command, the error of the first runtime that is
\* not installed, or a panic
Exec ==
    /\ Fresh
    /\ \E args0 \in ExecArgs, shell \in ShellVars, windows \in BOOLEAN,
          scope \in ScopeVars, overflow_checks \in BOOLEAN, cfg \in ExecConfigs,
          path \in InheritedPaths, utf8 \in BOOLEAN :
          \E fs \in [DOMAIN cfg -> LoadedStates], order \in Orders(DOMAIN cfg) :
             /\ lib_call' = [fn |-> "exec", args |-> args0, shell |-> shell,
                             windows |-> windows, scope |-> scope,
                             overflow_checks |-> overflow_checks, cfg |-> cfg,
                             fs |-> fs, order |-> order, path |-> path, utf8 |-> utf8]
             /\ lib_ret' =
                   IF exec(fs, order) # NoError THEN NoCommand("Err", exec(fs, order))
                   ELSE IF exec_VER_SCOPE(scope, overflow_checks).panicked
                   THEN NoCommand("panic", NoError)
                   ELSE Command(exec_program(args0, shell, windows), exec_args(args0),
                                exec_PATH(exec_paths(cfg, order), utf8, path),
                                exec_VER_SCOPE(scope, overflow_checks).text)
    /\ UNCHANGED <<serVars, cliVars>>

\* to_string of an error made by custom on the serializing or the
\* deserializing side
DisplayMessage ==
    /\ Fresh
    /\ \E side \in {"ser", "de"}, m \in Messages :
          LET e == IF side = "ser" THEN Error_custom(m) ELSE de_Error_custom(m)
          IN  /\ lib_call' = [fn |-> "custom", side |-> side, msg |-> m, error |-> e]
              /\ lib_ret' = Error_fmt(e)
    /\ UNCHANGED <<serVars, cliVars>>

\* to_string of an error of another kind
DisplayPositioned ==
    /\ Fresh
    /\ \E variant \in PositionedVariants, data \in Iterables, line \in Locations,
          column \in Locations :
          LET e == Positioned(variant, data, line, column)
          IN  /\ lib_call' = [fn |-> "to_string", error |-> e]
              /\ lib_ret' = Error_fmt(e)
    /\ UNCHANGED <<serVars, cliVars>>

LibNext ==
    \/ GetVersionSearchPaths
    \/ DisplayMessage
    \/ DisplayPositioned
    \/ Exec

Next == SerNext

Spec == Init /\ [][Next]_vars

CliSpec == Init /\ [][CliNext]_vars

LibSpec == Init /\ [][LibNext]_vars

(***************************************************************************)
(* Properties.                                                              *)
(***************************************************************************)
Range(f) == {f[i] : i \in DOMAIN f}

IsPrefix(p, t) == Len(p) <= Len(t) /\ SubSeq(t, 1, Len(p)) = p

Arrow == <<"-", ">">>
Quoted(text) == <<"\"">> \o text \o <<"\"">>

\* the values whose text is a sentence of the grammar: no string holds a
\* double quote, a string key is a non-empty run of identifier bytes, and
\* no struct variant is without fields
RECURSIVE Grammatical(_)
Grammatical(v) ==
    CASE v.k = "str" -> "\"" \notin Range(v.s)
      [] v.k = "entry" ->
            /\ IF v.items[1].k = "str"
               THEN /\ v.items[1].s # <<>>
                    /\ Range(v.items[1].s) \subseteq IdentifierBytes
               ELSE Grammatical(v.items[1])
            /\ Grammatical(v.items[2])
      [] v.k = "struct_variant" ->
            v.items # <<>> /\ \A i \in 1..Len(v.items) : Grammatical(v.items[i])
      [] OTHER -> \A i \in 1..Len(v.items) : Grammatical(v.items[i])

\* no present optional of the value holds a value written as the unit
\* sentinel
RECURSIVE Unambiguous(_)
Unambiguous(v) ==
    /\ v.k = "some" => to_string(v.items[1]) # <<"/">>
    /\ \A i \in 1..Len(v.items) : Unambiguous(v.items[i])

\* from_str has read the text to_string returned for the value
Decoded == phase = "decoded"

Exited(sub) == pc = "exited" /\ args.sub.name = sub

\* some line of standard error carries the text e
Reported(e) == \E i \in 1..Len(stderr) : e \in Range(stderr[i])

\* every pair of the configuration to be written is installed: the
\* runtime's metadata loads and its version directory exists
IsInstalled(st) == st.meta /\ st.dir
AllInstalled == \A r \in DOMAIN installed : IsInstalled(installed[r])

\* C3 (as claimed): when the file at config_path exists and does not parse,
\* check, apply and scope report the parse error, exit non-zero and leave
\* the file as it was.
C3_ParseErrorReported ==
    (/\ pc = "exited"
     /\ program = "main"
     /\ args.sub.name \in {"check", "apply", "scope"}
     /\ file0.kind = "invalid")
        => /\ exit_code # 0
           /\ Reported(E_InvalidConfig)
           /\ ~wrote
           /\ file = file0

\* C4 (as claimed): apply and switch without --skip-check write the file
\* only if every pair of the configuration to be written is installed, and
\* otherwise leave the file as it was and exit non-zero.
C4_WritesOnlyInstalled ==
    (/\ pc = "exited"
     /\ args.sub.name \in {"apply", "switch"}
     /\ ~args.sub.skip_check)
        => /\ wrote => AllInstalled
           /\ ~AllInstalled => (~wrote /\ file = file0 /\ exit_code # 0)

\* C4 (amended): apply of src/main.rs without --skip-check writes the file
\* only if every pair of the configuration to be written is installed;
\* switch of verune/src/main.rs without --skip-check writes it only if the
\* pair given on the command line is installed; when the pairs each checks
\* are not all installed the file is left as it was and the exit status is
\* non-zero.
C4_WritesOnlyChecked ==
    /\ (Exited("apply") /\ program = "main" /\ ~args.sub.skip_check)
          => /\ wrote => AllInstalled
             /\ ~AllInstalled => (~wrote /\ file = file0 /\ exit_code # 0)
    /\ (Exited("switch") /\ program = "verune" /\ ~args.sub.skip_check)
          => /\ wrote => IsInstalled(installed[args.sub.pair[1]])
             /\ ~IsInstalled(installed[args.sub.pair[1]])
                   => (~wrote /\ file = file0 /\ exit_code # 0)

\* apply has checked two installed pairs and written them
C4_Witness ==
    /\ Exited("apply")
    /\ program = "main"
    /\ ~args.sub.skip_check
    /\ wrote
    /\ DOMAIN installed = Runtimes
    /\ file.map # file0.map

\* the entries of the file at config_path when main started
BaseEntries == config_data(ok(conf_parse(file0)))

\* C5 (as claimed): apply without --full writes the entries of the base
\* configuration file plus the pair of the command line and nothing else,
\* whatever the overlays and also when the base file is missing or does
\* not parse.
C5_WritesBasePlusPair ==
    (/\ Exited("apply")
     /\ program = "main"
     /\ ~args.sub.full
     /\ wrote)
        => file = FMap(Insert(BaseEntries, args.sub.pair[1], args.sub.pair[2]))

\* the keyed containers that are open: the ends the adapter still has to
\* call
RECURSIVE OpenKeyed(_)
OpenKeyed(ts) ==
    IF ts = <<>> THEN 0
    ELSE (IF Head(ts).op \in {"map_end", "struct_end", "struct_variant_end"}
          THEN 1 ELSE 0) + OpenKeyed(Tail(ts))

\* the text the step appends to the output
Appended == SubSeq(output', Len(output) + 1, Len(output'))

\* the adapter makes the call op in this step
Calling(ops) ==
    /\ phase = "running"
    /\ tasks # <<>>
    /\ Head(tasks).op \in ops
    /\ phase' = "running"

\* the adapter has a value of kind k serialized in this step
Serializing(k) == OnValue(k) /\ phase' = "running"

KeyCalls == {"map_key", "struct_field", "struct_variant_field"}
KeyedEnds == {"map_end", "struct_end", "struct_variant_end"}
ElementCalls ==
    {"seq_element", "tuple_element", "tuple_struct_field", "tuple_variant_field"}

\* a newline and n spaces, and no further space
Indented(text, n) ==
    /\ IsPrefix(<<"\n">> \o Repeat(" ", n), text)
    /\ Len(text) > n + 1 => text[n + 2] # " "

\* C6 (as claimed): under the newline delimiter with indent width w, each
\* key of a keyed container opened at depth d is preceded by a newline and
\* exactly w*(d+1) spaces, and the closing brace of a container that has
\* keys is on its own line after exactly w*d spaces.
C6_IndentSymmetry ==
    [][(pretty.delimiter = "Newline")
          => /\ Calling(KeyCalls)
                   => Indented(Appended, pretty.indent_width * OpenKeyed(tasks))
             /\ (Calling(KeyedEnds) /\ ~ends_with(output, "{"))
                   => Appended = <<"\n">>
                          \o Repeat(" ", pretty.indent_width * (OpenKeyed(tasks) - 1))
                          \o <<"}">>]_vars

S3_claimed ==
    <<"$">> \o N_ReleaseCandidate \o <<"{", "\n", " ", " ", " ", " ">>
        \o N_changelog \o Arrow \o Quoted(S_changelog_text) \o <<"\n", "}">>

\* C7 (as claimed): ReleaseCandidate { changelog } under the newline
\* delimiter and indent width 4 is three lines: the tag and the brace, the
\* key after four spaces, the closing brace alone.
C7_StructVariantThreeLines ==
    (/\ phase = "returned"
     /\ val = V_struct_variant
     /\ pretty = PrettyConfig_hierarchy)
        => result = S3_claimed

S1_head == <<"{">> \o N_name \o Arrow \o Quoted(S_my_plugin) \o <<":">>
S1_tail ==
    <<":">> \o N_distribution \o Arrow \o <<"$">> \o N_Stable
        \o <<":">> \o N_compat \o Arrow \o <<"{", "}", "}">>

S1_claimed ==
    S1_head \o N_version \o Arrow \o <<"[", "1", ":", " ", "0", ":", " ", "0", "]">>
        \o <<":">> \o N_api_compat \o Arrow
        \o <<"[", "1", ":", " ", "0", ":", " ", "1", "]">> \o S1_tail

S1_tuples ==
    S1_head \o N_version \o Arrow \o <<"(", "1", ":", "0", ":", "0", ")">>
        \o <<":">> \o N_api_compat \o Arrow
        \o <<"(", "1", ":", "0", ":", "1", ")">> \o S1_tail

S1_sequences ==
    S1_head \o N_version \o Arrow \o <<"[", "1", ":", "0", ":", "0", "]">>
        \o <<":">> \o N_api_compat \o Arrow
        \o <<"[", "1", ":", "0", ":", "1", "]">> \o S1_tail

\* the Plugin of scenario S1, with arrays or with sequences
IsS1 == val \in {V_simple_struct, V_simple_struct_vec}

\* C8 (as claimed): under the default config the Plugin of S1 is written
\* with ":" between the fields and ": " between the siblings of the
\* bracketed containers.
C8_S1_ColonSpace ==
    (phase = "returned" /\ IsS1 /\ pretty = PrettyConfig_default)
        => result = S1_claimed

\* C8 (amended): under the default config the Plugin of S1 is written with
\* ":" alone between the fields and between the siblings of the inner
\* containers; its [u8; 3] fields are tuples, written in parentheses, and
\* sequences in their place are written in brackets.
C8_S1_Colon ==
    (phase = "returned" /\ pretty = PrettyConfig_default)
        => /\ val = V_simple_struct => result = S1_tuples
           /\ val = V_simple_struct_vec => result = S1_sequences

C8_Witness ==
    phase = "returned" /\ val = V_simple_struct /\ pretty = PrettyConfig_default
        /\ result = S1_tuples

S2_claimed ==
    <<"$">> \o N_Nightly \o <<"(", "1", "2", ":", " ", "1", "3", ":", " ", "2", "5", ")">>

S2_colon ==
    <<"$">> \o N_Nightly \o <<"(", "1", "2", ":", "1", "3", ":", "2", "5", ")">>

\* C9 (as claimed): under the colon config Nightly(12, 13, 25) is written
\* $Nightly(12: 13: 25).
C9_S2_ColonSpace ==
    (phase = "returned" /\ val = V_Nightly /\ pretty.delimiter = "Colon")
        => result = S2_claimed

\* C9 (amended): under the colon config Nightly(12, 13, 25) is written
\* $Nightly(12:13:25): the tag, "(", the elements in order with ":" alone
\* between them, ")".
C9_S2_Colon ==
    (phase = "returned" /\ val = V_Nightly /\ pretty.delimiter = "Colon")
        => result = S2_colon

C9_Witness ==
    phase = "returned" /\ val = V_Nightly /\ pretty.delimiter = "Colon"
        /\ result = S2_colon

DelimiterChars == {":", " ", "\n"}

\* the first call for a child of a container: the output ends with the
\* opening bracket
FirstChild == Calling(KeyCalls \cup ElementCalls) /\ output # <<>>
                  /\ output[Len(output)] \in {"[", "(", "{"}

\* C10 (as claimed): under every pretty config nothing is written between
\* an opening bracket and the first element or key but the element or key
\* itself.
C10_NoDelimiterAfterOpening ==
    [][FirstChild => (Appended = <<>> \/ Appended[1] \notin DelimiterChars)]_vars

\* C10 (amended): no delimiter is written after an opening "[" or "(", nor
\* after the "{" of a struct variant, under every pretty config, nor after
\* the "{" of a map or struct under the colon and whitespace delimiters;
\* under the newline delimiter the first key of a map or struct is written
\* after a newline and the indentation.
C10_NoDelimiterAfterOpeningButNewline ==
    [][FirstChild
          => IF Calling({"map_key", "struct_field"}) /\ pretty.delimiter = "Newline"
             THEN Indented(Appended, pretty.indent_width * indent_tracking)
             ELSE Appended = <<>> \/ Appended[1] \notin DelimiterChars]_vars

\* a sequence of two elements has been written under the whitespace
\* delimiter: its first element follows the bracket, its second a space
C10_Witness ==
    /\ phase = "returned"
    /\ pretty.delimiter = "Whitespace"
    /\ val.k = "seq"
    /\ Len(val.items) = 2
    /\ result[1] = "["
    /\ result[2] \notin DelimiterChars

\* the text of each item, between the brackets, with sep between consecutive
\* items
RECURSIVE Joined(_, _)
Joined(texts, sep) ==
    IF texts = <<>> THEN <<>>
    ELSE IF Len(texts) = 1 THEN texts[1]
    ELSE texts[1] \o sep \o Joined(Tail(texts), sep)

OrderedKinds == {"seq", "tuple", "tuple_struct", "tuple_variant"}

\* to_string has returned Ok with the text
Returned == phase = "returned"

\* C11: under the newline delimiter the call for an element of a sequence,
\* tuple, tuple struct or tuple variant writes nothing (first element) or a
\* single space, never a newline, at every nesting level.
C11_SiblingsOnOneLine ==
    [][(pretty.delimiter = "Newline" /\ Calling(ElementCalls))
          => Appended \in {<<>>, <<" ">>}]_vars

\* the tuple of test::whitespace_delimiter has been written under the
\* newline delimiter with indentation: its siblings are a space apart
C11_Witness ==
    /\ Returned
    /\ pretty.delimiter = "Newline"
    /\ pretty.indent_width > 0
    /\ val = V_whitespace_delimiter
    /\ result = <<"(", "1", " ", "t", "r", "u", "e", " ">> \o Quoted(S_test) \o <<")">>

\* an opening bracket, then only delimiter characters up to its closing
\* bracket
RECURSIVE PaddedTo(_, _, _)
PaddedTo(text, i, close) ==
    /\ i <= Len(text)
    /\ \/ text[i] = close
       \/ text[i] \in DelimiterChars /\ PaddedTo(text, i + 1, close)

Closing(open) == CASE open = "{" -> "}" [] open = "[" -> "]" [] open = "(" -> ")"

\* some brackets of the text hold delimiter characters and nothing else
PaddedEmpty(text) ==
    \E i \in 1..Len(text) :
        /\ text[i] \in {"{", "[", "("}
        /\ i < Len(text)
        /\ text[i + 1] \in DelimiterChars
        /\ PaddedTo(text, i + 1, Closing(text[i]))

\* C12: under every pretty config an empty map, struct, sequence or tuple is
\* written as its two brackets with nothing between them, alone and nested
\* in other containers, the newline delimiter with indentation included.
C12_EmptyContainers ==
    Returned
        => /\ ~PaddedEmpty(result)
           /\ (val.k \in {"map", "struct"} /\ val.items = <<>>) => result = <<"{", "}">>
           /\ (val.k = "seq" /\ val.items = <<>>) => result = <<"[", "]">>
           /\ (val.k \in {"tuple", "tuple_struct"} /\ val.items = <<>>)
                 => result = <<"(", ")">>

\* a map holding an empty map has been written under the newline delimiter
\* with indentation
C12_Witness ==
    /\ Returned
    /\ pretty.delimiter = "Newline"
    /\ pretty.indent_width > 0
    /\ val.k = "map"
    /\ Len(val.items) = 1
    /\ val.items[1].items[2] = VMap(<<>>)
    /\ SubSeq(result, Len(result) - 3, Len(result)) = <<"{", "}", "\n", "}">>

C14_DepthCountsOpenKeyed ==
    phase = "running"
        => /\ indent_tracking = OpenKeyed(tasks)
           /\ indent_tracking >= 0

\* the value about to be serialized is the key of a map entry
KeyPosition == Len(tasks) >= 2 /\ tasks[2].op = "map_value"

IsSuffix(s, t) == Len(s) <= Len(t) /\ SubSeq(t, Len(t) - Len(s) + 1, Len(t)) = s

\* C15: a string that is the key of a map, struct or struct variant is
\* written bare and a string in any other position between double quotes;
\* the mode is Key only from the call for a map key to the call for its
\* value, which resets it to Normal and then writes `->`; a field call
\* writes its key bare and leaves the mode Normal.
C15_KeysBareValuesQuoted ==
    [][/\ Serializing("str")
          => Appended = (IF KeyPosition THEN Head(tasks).v.s
                         ELSE Quoted(Head(tasks).v.s))
       /\ Calling({"struct_field", "struct_variant_field"})
          => /\ IsSuffix(Head(tasks).v.items[1].s \o Arrow, Appended)
             /\ "\"" \notin Range(Appended)
             /\ mode' = "Normal"
       /\ Calling({"map_value"}) => mode' = "Normal" /\ Appended = Arrow
       /\ (phase' = "running" /\ mode' = "Key")
          => /\ tasks' # <<>>
             /\ \/ Head(tasks').op = "map_value"
                \/ Head(tasks').op = "value" /\ Len(tasks') >= 2
                                             /\ tasks'[2].op = "map_value"]_vars

\* the map of test::serialize_hashmap has been written: its key bare, its
\* value quoted
C15_Witness ==
    /\ Returned
    /\ val = V_hashmap
    /\ pretty = PrettyConfig_default
    /\ result = <<"{">> \o S_one \o Arrow \o Quoted(S_value_one) \o <<"}">>

\* C16: under every pretty config and at every position a unit, a unit
\* struct and an absent optional are each written as exactly "/", and a
\* present optional is written as exactly the text of the value it holds.
C16_UnitSentinel ==
    [][/\ (Serializing("unit") \/ Serializing("unit_struct") \/ Serializing("none"))
          => Appended = <<"/">> /\ tasks' = Tail(tasks)
       /\ Serializing("some")
          => /\ Appended = <<>>
             /\ tasks' = <<Task("value", Head(tasks).v.items[1])>> \o Tail(tasks)
       /\ (phase' = "returned" /\ val.k \in {"unit", "unit_struct", "none"})
          => result' = <<"/">>
       /\ (phase' = "returned" /\ val.k = "some")
          => result' = to_string_pretty(val.items[1], pretty)]_vars

\* test::none: the None of an Option<()> has been written as "/"
C16_Witness ==
    /\ Returned
    /\ ty = TOption(TUnit)
    /\ val = VNone
    /\ result = <<"/">>

\* the separator between the elements of an ordered container
Separator(p) == IF p.delimiter = "Colon" THEN ":" ELSE " "

\* the brackets of an ordered container
Opening(v) ==
    CASE v.k \in {"seq", "bytes"} -> <<"[">>
      [] v.k \in {"tuple", "tuple_struct"} -> <<"(">>
      [] v.k = "tuple_variant" -> <<"$">> \o v.s \o <<"(">>

Ending(v) == IF v.k \in {"seq", "bytes"} THEN <<"]">> ELSE <<")">>

ElementEnds == {"seq_end", "tuple_end", "tuple_struct_end", "tuple_variant_end"}

\* C17: an ordered container of n elements is written as its opening
\* bracket, the n texts of its elements with one separator between each two
\* (n-1 separators), and its closing bracket, with no separator after the
\* opening nor before the closing; each element call writes at most one
\* separator and each end call the bracket alone; the tuple
\* (1, true, "test") under the whitespace delimiter is (1 true "test").
C17_SeparatorsBetweenOnly ==
    [][/\ (phase' = "returned" /\ val.k \in OrderedKinds \cup {"bytes"})
          => result' = Opening(val)
                 \o Joined([i \in DOMAIN val.items |->
                               to_string_pretty(val.items[i], pretty)],
                           <<Separator(pretty)>>)
                 \o Ending(val)
       /\ Calling(ElementCalls) => Appended \in {<<>>, <<Separator(pretty)>>}
       /\ (Calling(ElementCalls) /\ (ends_with(output, "(") \/ ends_with(output, "[")))
          => Appended = <<>>
       /\ Calling(ElementEnds) => Appended \in {<<"]">>, <<")">>}
       /\ (phase' = "returned" /\ val = V_whitespace_delimiter
             /\ pretty.delimiter = "Whitespace")
          => result' = <<"(", "1", " ", "t", "r", "u", "e", " ", "\"">>
                           \o S_test \o <<"\"", ")">>]_vars

\* test::whitespace_delimiter: the tuple has been written under the
\* whitespace delimiter as (1 true "test")
C17_Witness ==
    /\ Returned
    /\ val = V_whitespace_delimiter
    /\ pretty.delimiter = "Whitespace"
    /\ Len(result) = 15
    /\ result[3] = " "
    /\ result[8] = " "

NarrowSigned == {"i8", "i16", "i32"}
NarrowUnsigned == {"u8", "u16", "u32"}

\* the value of the integer the adapter has serialized in this step
Operand == Head(tasks).v.n

\* C18: the text written for an i8, i16 or i32 is the text written for the
\* same number as an i64, and the text written for a u8, u16 or u32 is the
\* text written for the same number as a u64, at every position and when
\* the integer is the whole value.
C18_NarrowAsWide ==
    [][/\ \A k \in NarrowSigned :
            Serializing(k) => Appended = to_string_pretty(VInt("i64", Operand), pretty)
       /\ \A k \in NarrowUnsigned :
            Serializing(k) => Appended = to_string_pretty(VInt("u64", Operand), pretty)
       /\ (phase' = "returned" /\ val.k \in NarrowSigned)
          => result' = to_string_pretty(VInt("i64", val.n), pretty)
       /\ (phase' = "returned" /\ val.k \in NarrowUnsigned)
          => result' = to_string_pretty(VInt("u64", val.n), pretty)]_vars

\* the least i8 has been written, sign and three digits
C18_Witness ==
    /\ Returned
    /\ val = VInt("i8", -128)
    /\ result = <<"-", "1", "2", "8">>

RECURSIVE split(_)
split(text) ==
    IF delim \notin Range(text) THEN <<text>>
    ELSE LET i == CHOOSE k \in 1..Len(text) :
                      text[k] = delim /\ \A j \in 1..(k - 1) : text[j] # delim
         IN  <<SubSeq(text, 1, i - 1)>> \o split(SubSeq(text, i + 1, Len(text)))

\* the entries of the PATH main runs with; none when it is unset
InheritedEntries(path) == IF path.set THEN split(path.text) ELSE <<>>

\* one entry per path
Entries(paths) == [i \in DOMAIN paths |-> <<paths[i]>>]

\* the child of scope has run
Scoped == pc \in {"finished", "exited"} /\ args.sub.name = "scope" /\ child.spawned

\* C20 (as claimed): the entries of the PATH of the child of scope are, for
\* each configured runtime in some order, its version directory followed by
\* its search paths under that directory, and after them the entries of the
\* inherited PATH, unchanged and in order.
C20_ScopedPath ==
    Scoped
        => \E order \in Orders(DOMAIN config.map) :
              split(child.PATH) = Entries(exec_paths(config.map, order))
                                      \o InheritedEntries(child.inherited)

\* C21: get_version_search_paths returns Ok only when the version directory
\* and every search path of the metadata exist, and then with exactly one
\* path per search path, in metadata order, each the version directory
\* joined with the search path; when the version directory or a search path
\* is missing it returns a NotFound error and no path at all.
C21_AllOrNothing ==
    Called("get_version_search_paths")
        => LET rt == lib_call.rt
               ver == lib_call.ver
               all == tested_paths(rt, ver) \subseteq lib_call.existing
           IN  /\ lib_ret.ok <=> all
               /\ lib_ret.ok
                  => /\ Len(lib_ret.paths) = Len(search_paths(rt))
                     /\ \A i \in DOMAIN lib_ret.paths :
                           lib_ret.paths[i] = PathToken("dir", rt, ver, search_paths(rt)[i])
               /\ ~lib_ret.ok => lib_ret.kind = "NotFound" /\ lib_ret.paths = <<>>

\* the first search path of python exists and the second does not: the
\* error, and not the first path
C21_Witness ==
    /\ Called("get_version_search_paths")
    /\ lib_call.rt = "python"
    /\ lib_call.existing = {version_dir("python", lib_call.ver),
                            proper_search_buf("python", lib_call.ver, "bin")}
    /\ ~lib_ret.ok
    /\ lib_ret.err = E_SearchPathNotFound

\* the metadata of the runtime loads, the version directory exists and so
\* does every search path under it
FullyInstalled(st) == st.meta /\ st.dir /\ st.paths
AllFullyInstalled == \A r \in DOMAIN installed : FullyInstalled(installed[r])

\* C22 (as claimed): check exits with status 0 if and only if every pair of
\* the effective configuration is installed, search paths included, and
\* with status 1 otherwise.
C22_CheckExitStatus ==
    Exited("check") => exit_code = (IF AllFullyInstalled THEN 0 ELSE 1)

\* C22 (amended): check of src/main.rs exits with status 2 when there is no
\* configuration data; when there is, it exits with status 0 if and only if
\* every pair of the effective configuration is installed, search paths
\* included, and with status 1 otherwise.  check of verune/src/main.rs
\* tests the version directories only.
C22_CheckExitStatusWithConfig ==
    /\ (Exited("check") /\ program = "main")
          => IF config.some
             THEN /\ DOMAIN installed = DOMAIN config.map
                  /\ exit_code = (IF AllFullyInstalled THEN 0 ELSE 1)
             ELSE exit_code = 2
    /\ (Exited("check") /\ program = "verune")
          => IF config.some
             THEN exit_code = (IF \A r \in DOMAIN installed : installed[r].dir
                               THEN 0 ELSE 1)
             ELSE exit_code = 2

\* check of src/main.rs has found the search paths of one of two runtimes
\* missing and exited with status 1
C22_Witness ==
    /\ Exited("check")
    /\ program = "main"
    /\ DOMAIN installed = Runtimes
    /\ FullyInstalled(installed["node"])
    /\ IsInstalled(installed["python"])
    /\ ~installed["python"].paths
    /\ exit_code = 1

\* exec has returned a Command
Executed == Called("exec") /\ lib_ret.outcome = "Ok"

\* C23: the program of the Command is the first element of args and its
\* arguments the remaining elements in order; with no args the program is
\* the value of $SHELL when it is set and otherwise sh, or cmd on Windows,
\* and there are no arguments.
C23_ProgramChoice ==
    Executed
        => IF Len(lib_call.args) > 0
           THEN /\ lib_ret.program = lib_call.args[1]
                /\ Len(lib_ret.args) = Len(lib_call.args) - 1
                /\ \A i \in DOMAIN lib_ret.args : lib_ret.args[i] = lib_call.args[i + 1]
           ELSE /\ lib_ret.args = <<>>
                /\ lib_ret.program =
                      (IF lib_call.shell.set THEN lib_call.shell.text
                       ELSE IF lib_call.windows THEN "cmd" ELSE "sh")

\* exec was given a command with two arguments while $SHELL was set: the
\* command is the program
C23_Witness ==
    /\ Executed
    /\ lib_call.args = <<"node", "-v", "x">>
    /\ lib_call.shell.set
    /\ lib_ret.program = "node"
    /\ lib_ret.args = <<"-v", "x">>

\* a occurs in t as a contiguous run
IsInfix(a, t) == \E i \in 1..(Len(t) - Len(a) + 1) : SubSeq(t, i, i + Len(a) - 1) = a

\* C24: an error made by Error::custom(m), on the serializing and on the
\* deserializing side, is of the Message kind and displays as exactly m;
\* the display of an error of every other kind contains its line and its
\* column.
C24_ErrorDisplay ==
    /\ Called("custom") => lib_call.error.variant = "Message" /\ lib_ret = lib_call.msg
    /\ Called("to_string")
          => /\ IsInfix(itoa_u64(lib_call.error.line), lib_ret)
             /\ IsInfix(itoa_u64(lib_call.error.column), lib_ret)
             /\ IsInfix(itoa_u64(lib_call.error.line) \o <<":">>
                           \o itoa_u64(lib_call.error.column), lib_ret)

\* a sequence kept open at line 12, column 1 was displayed
C24_Witness ==
    /\ Called("to_string")
    /\ lib_call.error.variant = "SequenceKeptOpen"
    /\ lib_call.error.line = 12
    /\ lib_call.error.column = 1
    /\ lib_ret = <<"the ", "array", " at location (", "1", "2", ":", "1", ") was kept open">>

\* the layers of a run of ver in the order they are applied: the file at
\* config_path, the files of VERUNE_OVERLAYS, the files of --overlay, the
\* pairs of --replace; each as the entries it defines, none for a file that
\* cannot be read or parsed
Layers ==
    LET files == <<file0>> \o (IF env.set THEN env.files ELSE <<>>) \o args.overlay
    IN  [i \in DOMAIN files |->
            IF conf_parse(files[i]).ok THEN conf_parse(files[i]).map ELSE EmptyMap]
        \o [i \in DOMAIN args.replace |->
               [r \in {args.replace[i][1]} |-> args.replace[i][2]]]

\* the latest layer that defines the runtime r
Latest(r) ==
    CHOOSE i \in DOMAIN Layers :
        /\ r \in DOMAIN Layers[i]
        /\ \A j \in DOMAIN Layers : r \in DOMAIN Layers[j] => j <= i

\* for every runtime a layer defines, the version the latest such layer gives
Effective ==
    [r \in UNION {DOMAIN Layers[i] : i \in DOMAIN Layers} |-> Layers[Latest(r)][r]]

\* main has applied every layer
Layered == program = "main" /\ pc = "replaced"

\* no overlay file can be read and parsed, and there is no --replace
OverlaysUnusable ==
    /\ \A i \in DOMAIN env.files : ~conf_parse(env.files[i]).ok
    /\ \A i \in DOMAIN args.overlay : ~conf_parse(args.overlay[i]).ok
    /\ args.replace = <<>>

\* C25: the effective configuration is the base file, then each
\* VERUNE_OVERLAYS file, then each --overlay file, then each --replace pair,
\* in order; the latest layer that defines a runtime wins and the other
\* entries are kept; an overlay file that cannot be read or parsed leaves
\* the configuration unchanged.
C25_LayeringOrder ==
    Layered
        => /\ config_data(config) = Effective
           /\ OverlaysUnusable => config = ok(conf_parse(file0))

\* C25, amended: an overlay file that cannot be read or parsed leaves the
\* entries unchanged; there is a configuration, possibly an empty one, as
\* soon as the base file parses, VERUNE_OVERLAYS is set, or an --overlay or
\* a --replace is given.
C25_LayeringOrderOfEntries ==
    Layered
        => /\ config_data(config) = Effective
           /\ OverlaysUnusable => config_data(config) = config_data(ok(conf_parse(file0)))
           /\ config.some <=> \/ conf_parse(file0).ok
                              \/ env.set
                              \/ args.overlay # <<>>
                              \/ args.replace # <<>>

\* every kind of layer took part: the base file sets node and python to 1,
\* VERUNE_OVERLAYS sets node to 1 and then 2 and python to 2, the --overlay
\* file is absent, and --replace sets python to 1 and then to 2
C25_Witness ==
    /\ Layered
    /\ file0 = FMap([r \in {"node", "python"} |-> "1"])
    /\ env.set
    /\ env.files = <<O_both, O_node2>>
    /\ args.overlay = <<FAbsent>>
    /\ args.replace = <<<<"python", "1">>, <<"python", "2">>>>
    /\ config = Some([r \in {"node", "python"} |-> "2"])

\* value.serialize has returned Ok: every container the adapter opened is
\* closed
Completed == phase \in {"running", "returned"} /\ tasks = <<>>

\* the values serialized after another on the same Serializer
Neighbours == {V_hashmap, V_struct_variant, V_simple_struct_vec, V_tuple_variant}

\* C26: after a complete serialization of a value the mode is Normal and
\* the depth is 0, whatever the nesting of maps, structs, struct variants,
\* sequences and tuples; a value serialized after it is laid out as it is
\* when serialized alone.
C26_CompleteLeavesTopLevel ==
    Completed
        => /\ mode = "Normal"
           /\ indent_tracking = 0
           /\ \A v \in Neighbours :
                 Drive(Self, <<Task("value", v)>>).output
                    = output \o to_string_pretty(v, pretty)

\* a sequence of structs was serialized with one struct per line
C26_Witness ==
    /\ Completed
    /\ val = V_simple_struct_vec
    /\ pretty.delimiter = "Newline"
    /\ pretty.indent_width > 0
    /\ output # <<>>

\* the text starts with the delimiter, or holds two delimiters in a row
StartsWithDelimiter(text) == text # <<>> /\ Head(text) = delim
AdjacentDelimiters(text) ==
    \E i \in 1..(Len(text) - 1) : text[i] = delim /\ text[i + 1] = delim

\* C27: the PATH exec builds holds no empty entry: it never starts with the
\* path delimiter and never has two adjacent delimiters, also when the
\* configuration has no runtime or a directory path is not valid UTF-8.
C27_NoEmptyPathEntry ==
    Executed
        => /\ ~StartsWithDelimiter(lib_ret.PATH)
           /\ ~AdjacentDelimiters(lib_ret.PATH)

\* C27, with a runtime configured, every path valid UTF-8 and the
\* inherited PATH without an empty entry of its own
C27_NoEmptyPathEntryConfigured ==
    /\ Executed
    /\ lib_call.cfg # EmptyMap
    /\ lib_call.utf8
    /\ lib_call.path.set => lib_call.path.text # <<>>
    => /\ ~StartsWithDelimiter(lib_ret.PATH)
       /\ ~AdjacentDelimiters(lib_ret.PATH)

\* exec was called and did not fail on a runtime that is not installed
ExecScoped == Called("exec") /\ lib_ret.outcome # "Err"

\* the scope of the parent: the value of its VER_SCOPE when it parses, and
\* no scope otherwise
ParentScope == parse_usize(lib_call.scope.text)
ParentScoped == lib_call.scope.set /\ ParentScope.ok

\* C28: the child's VER_SCOPE is the inherited VER_SCOPE plus one when that
\* parses as an unsigned integer and 1 otherwise; it is at least 1 and
\* greater than the parent's scope, for every inherited value that parses,
\* the largest machine word included.
C28_ScopeGrows ==
    ExecScoped
        => /\ lib_ret.outcome = "Ok"
           /\ lib_ret.VER_SCOPE =
                 (IF ParentScoped THEN numeral_succ(ParentScope.n) ELSE <<"1">>)
           /\ ~numeral_less(lib_ret.VER_SCOPE, <<"1">>)
           /\ ParentScoped => numeral_less(ParentScope.n, lib_ret.VER_SCOPE)

\* C28, for every inherited value below the largest machine word
C28_ScopeGrowsBelowMax ==
    ExecScoped /\ ~(ParentScoped /\ ParentScope.n = usize_MAX)
        => /\ lib_ret.outcome = "Ok"
           /\ lib_ret.VER_SCOPE =
                 (IF ParentScoped THEN numeral_succ(ParentScope.n) ELSE <<"1">>)
           /\ ~numeral_less(lib_ret.VER_SCOPE, <<"1">>)
           /\ ParentScoped => numeral_less(ParentScope.n, lib_ret.VER_SCOPE)

\* the check of apply ran over every runtime and found a version directory
\* missing
ApplyChecked ==
    /\ program = "main"
    /\ Exited("apply")
    /\ ~args.sub.skip_check
    /\ \A r \in DOMAIN installed : installed[r].meta
    /\ \E r \in DOMAIN installed : ~installed[r].dir

\* the runtimes whose version directory is missing
Missing == {r \in DOMAIN installed : ~installed[r].dir}

\* the text the check of apply printed: the first line of standard error
CheckReport == stderr[1]

\* C29: when the check of apply finds k >= 1 runtimes whose version
\* directory is missing, it reports exactly k messages, one per such
\* runtime, separated by exactly k - 1 newlines, with no leading blank
\* line, wherever the failing runtimes are among the checked ones.
C29_OneMessagePerLine ==
    ApplyChecked
        => /\ stderr # <<>>
           /\ Len(CheckReport) = 2 * Cardinality(Missing) - 1
           /\ \A i \in DOMAIN CheckReport :
                 IF i % 2 = 0 THEN CheckReport[i] = "\n" ELSE CheckReport[i] \in Missing
           /\ {CheckReport[i] : i \in {j \in DOMAIN CheckReport : j % 2 = 1}} = Missing

\* C29, when the first runtime checked is one of the failing ones, or only
\* one runtime fails
C29_OneMessagePerLineFirstFailing ==
    /\ ApplyChecked
    /\ \/ Head(CheckReport) \in Missing /\ Len(CheckReport) > 1 /\ CheckReport[2] = "\n"
       \/ Cardinality(Missing) = 1
    => /\ Len(CheckReport) = 2 * Cardinality(Missing) - 1
       /\ \A i \in DOMAIN CheckReport :
             IF i % 2 = 0 THEN CheckReport[i] = "\n" ELSE CheckReport[i] \in Missing
       /\ {CheckReport[i] : i \in {j \in DOMAIN CheckReport : j % 2 = 1}} = Missing

====
